---- MODULE Spec2Model ----
(***************************************************************************)
(* Model of the speech-fluency scoring engine (src/service/score.py) and   *)
(* of the batch endpoint that drives it (src/app.py, score).               *)
(*                                                                         *)
(* Real numbers are exact rationals <<n, d>> with d > 0 in lowest terms,   *)
(* so every comparison the code makes on floats is made here on the exact  *)
(* value (binary rounding of the floats is not modelled).                  *)
(***************************************************************************)
EXTENDS Integers, Sequences, FiniteSets, TLC

VARIABLES
    \* ---- normalize_score applied to drawn inputs (SpecNorm)
    nvalue, nvalue2, nrange, nres, nres2,
    \* ---- the grade bucket lines of evaluate_fluency applied to a composite (SpecGrade)
    gscore, gindex, ggrade, gscore2, gindex2,
    \* ---- evaluate_fluency applied to one audio/transcript pair (SpecEval)
    eaudio, etranscript, eout,
    \* ---- the batch endpoint score() of app.py (Spec)
    data, pc, submissions, i, results, all_fluency_scores, fluency_results, response,
    \* ---- detect_silence applied to a drawn envelope (SpecSilence)
    senergy, ssr, shop, sfactor, sout,
    \* ---- detect_language, detect_repetitions, count_filler_words and
    \* ---- detect_ai_generated_text applied to a drawn text (SpecText)
    ttext, tlanguage, trepetitions, tfillers, thuman,
    \* ---- get_fluency_feedback applied to a drawn result (SpecFeedback)
    fresult, ffeedback,
    \* ---- calculate_wpm and the English wpm normalisation applied to a drawn
    \* ---- word count and duration (SpecWpm)
    wwords, wduration, wwpm, wscore

normVars  == <<nvalue, nvalue2, nrange, nres, nres2>>
gradeVars == <<gscore, gindex, ggrade, gscore2, gindex2>>
evalVars  == <<eaudio, etranscript, eout>>
batchVars == <<data, pc, submissions, i, results, all_fluency_scores, fluency_results, response>>
silenceVars == <<senergy, ssr, shop, sfactor, sout>>
textVars == <<ttext, tlanguage, trepetitions, tfillers, thuman>>
feedbackVars == <<fresult, ffeedback>>
wpmVars == <<wwords, wduration, wwpm, wscore>>
pureVars == <<silenceVars, textVars, feedbackVars, wpmVars>>
vars == <<normVars, gradeVars, evalVars, batchVars, pureVars>>

\* an unset ideal (Python's None) in a range triple: no rational has denominator 0
None == <<0, 0>>
\* a result not computed yet
Pending == [pending |-> TRUE]

-----------------------------------------------------------------------------
(* Exact rational arithmetic *)

Abs(x) == IF x < 0 THEN -x ELSE x

RECURSIVE GCD(_, _)
GCD(a, b) == IF b = 0 THEN a ELSE GCD(b, a % b)

\* n/d divided through by g, the sign carried by the numerator
Reduced(n, d, g) ==
    IF d < 0 THEN <<-(n \div g), -(d \div g)>> ELSE <<n \div g, d \div g>>

\* the rational n/d (d # 0) in lowest terms
R(n, d) == Reduced(n, d, GCD(Abs(n), Abs(d)))

RInt(k)    == <<k, 1>>
RAdd(a, b) == R(a[1] * b[2] + b[1] * a[2], a[2] * b[2])
RSub(a, b) == R(a[1] * b[2] - b[1] * a[2], a[2] * b[2])
RMul(a, b) == R(a[1] * b[1], a[2] * b[2])
\* a / b for b # 0
RDiv(a, b) == R(a[1] * b[2], a[2] * b[1])
RAbs(a)    == <<Abs(a[1]), a[2]>>
RLt(a, b)  == a[1] * b[2] < b[1] * a[2]
RLe(a, b)  == a[1] * b[2] <= b[1] * a[2]
REq(a, b)  == a[1] * b[2] = b[1] * a[2]
\* Python's max(a, b) and min(a, b): the first argument unless the second is beyond it
RMax(a, b) == IF RLt(a, b) THEN b ELSE a
RMin(a, b) == IF RLt(b, a) THEN b ELSE a
RZero == RInt(0)
ROne  == RInt(1)
\* floor of a rational (d > 0; \div rounds toward minus infinity)
RFloor(a) == a[1] \div a[2]

\* a value returned, or an exception raised
Ok(v)     == [raised |-> FALSE, value |-> v]
Raise(e)  == [raised |-> TRUE, exc |-> e]

-----------------------------------------------------------------------------
(* normalize_score *)

\* max(0.0, 1 - distance / ideal_range)
Penalized(distance, ideal_range) ==
    RMax(RZero, RSub(ROne, RDiv(distance, ideal_range)))

\* an unset ideal taken to be the lower bound
EffectiveIdealAtMin(range_values) ==
    IF range_values[3] = None THEN range_values[1] ELSE range_values[3]

\* the ideal normalize_score works with: the midpoint when unset
EffectiveIdeal(range_values) ==
    IF range_values[3] = None
    THEN RDiv(RAdd(range_values[1], range_values[2]), RInt(2))
    ELSE range_values[3]

\* normalize_score without the min_val == max_val guard
NormalizeScoreNoEqualGuard(value, range_values) ==
    LET min_val == range_values[1]
        max_val == range_values[2]
    IN  IF REq(max_val, min_val) THEN Raise("ZeroDivisionError")
        ELSE IF RLt(value, min_val)
             THEN Ok(Penalized(RAbs(RSub(min_val, value)), RSub(max_val, min_val)))
        ELSE IF RLt(max_val, value)
             THEN Ok(Penalized(RAbs(RSub(value, max_val)), RSub(max_val, min_val)))
        ELSE Ok(Penalized(RAbs(RSub(value, EffectiveIdeal(range_values))),
                          RSub(max_val, min_val)))

\* normalize_score scoring the in-range distance from min_val instead of ideal_val
NormalizeScoreFromMin(value, range_values) ==
    LET min_val == range_values[1]
        max_val == range_values[2]
    IN  IF REq(min_val, max_val) THEN Ok(ROne)
        ELSE IF RLt(value, min_val)
             THEN Ok(Penalized(RAbs(RSub(min_val, value)), RSub(max_val, min_val)))
        ELSE IF RLt(max_val, value)
             THEN Ok(Penalized(RAbs(RSub(value, max_val)), RSub(max_val, min_val)))
        ELSE Ok(Penalized(RAbs(RSub(value, min_val)), RSub(max_val, min_val)))

\* normalize_score without the max(0.0, ...) floor
NormalizeScoreNoFloor(value, range_values) ==
    LET min_val == range_values[1]
        max_val == range_values[2]
    IN  IF REq(min_val, max_val) THEN Ok(ROne)
        ELSE IF RLt(value, min_val)
             THEN Ok(RSub(ROne, RDiv(RAbs(RSub(min_val, value)), RSub(max_val, min_val))))
        ELSE IF RLt(max_val, value)
             THEN Ok(RSub(ROne, RDiv(RAbs(RSub(value, max_val)), RSub(max_val, min_val))))
        ELSE Ok(RSub(ROne, RDiv(RAbs(RSub(value, EffectiveIdeal(range_values))),
                                RSub(max_val, min_val))))

\* normalize_score(value, range_values): a value, or the exception it raises
NormalizeScore(value, range_values) ==
    LET min_val == range_values[1]
        max_val == range_values[2]
    IN  IF REq(min_val, max_val) THEN Ok(ROne)
        ELSE IF RLt(value, min_val)
             THEN Ok(Penalized(RAbs(RSub(min_val, value)), RSub(max_val, min_val)))
        ELSE IF RLt(max_val, value)
             THEN Ok(Penalized(RAbs(RSub(value, max_val)), RSub(max_val, min_val)))
        ELSE Ok(Penalized(RAbs(RSub(value, EffectiveIdeal(range_values))),
                          RSub(max_val, min_val)))

-----------------------------------------------------------------------------
(* Text.  A string is a sequence of characters; a character is written as a *)
(* one-character string, or as base_marks for a letter with diacritics      *)
(* ("a_grave", "d_stroke"), upper-case letters with an upper-case base.     *)
(* A transcript is [is_str, chars]: is_str is FALSE for a value that is not *)
(* a string (a JSON null or number handed through as the answer).           *)

Str(chars) == [is_str |-> TRUE, chars |-> chars]
NotAString == [is_str |-> FALSE, chars |-> <<>>]

\* set('...') of detect_language
VietnameseChars ==
    {"a_grave", "a_acute", "a_hook", "a_tilde", "a_dot", "a_breve", "a_breve_grave",
     "a_breve_acute", "a_breve_hook", "a_breve_tilde", "a_dot_breve", "a_circ",
     "a_circ_grave", "a_circ_acute", "a_circ_hook", "a_circ_tilde", "a_dot_circ",
     "e_grave", "e_acute", "e_hook", "e_tilde", "e_dot", "e_circ", "e_circ_grave",
     "e_circ_acute", "e_circ_hook", "e_circ_tilde", "e_dot_circ", "i_grave",
     "i_acute", "i_hook", "i_tilde", "i_dot", "o_grave", "o_acute", "o_hook",
     "o_tilde", "o_dot", "o_circ", "o_circ_grave", "o_circ_acute", "o_circ_hook",
     "o_circ_tilde", "o_dot_circ", "o_horn", "o_horn_grave", "o_horn_acute",
     "o_horn_hook", "o_horn_tilde", "o_horn_dot", "u_grave", "u_acute", "u_hook",
     "u_tilde", "u_dot", "u_horn", "u_horn_grave", "u_horn_acute", "u_horn_hook",
     "u_horn_tilde", "u_horn_dot", "y_grave", "y_acute", "y_hook", "y_tilde",
     "y_dot", "d_stroke"}

\* str.lower() on the upper-case characters the inputs use
UpperCase == {"A", "C", "I", "M", "S", "T", "U", "A_grave", "D_stroke"}
LowerChar(c) ==
    CASE c = "A" -> "a" [] c = "C" -> "c" [] c = "I" -> "i" [] c = "M" -> "m"
      [] c = "S" -> "s" [] c = "T" -> "t" [] c = "U" -> "u"
      [] c = "A_grave" -> "a_grave" [] c = "D_stroke" -> "d_stroke"
      [] OTHER -> c
Lower(chars) == [k \in 1..Len(chars) |-> LowerChar(chars[k])]

\* whitespace, for str.split()
Whitespace == {" "}
\* the characters of the inputs that \w does not match
NonWordChars == {" ", ".", "!", "?", ","}
\* the sentence separators of re.split(r'[.!?]+', ...)
SentenceEnds == {".", "!", "?"}

RECURSIVE TokenizeFrom(_, _, _, _, _)
TokenizeFrom(chars, seps, k, cur, acc) ==
    IF k > Len(chars)
    THEN IF cur = <<>> THEN acc ELSE Append(acc, cur)
    ELSE IF chars[k] \in seps
         THEN TokenizeFrom(chars, seps, k + 1, <<>>,
                           IF cur = <<>> THEN acc ELSE Append(acc, cur))
         ELSE TokenizeFrom(chars, seps, k + 1, Append(cur, chars[k]), acc)

\* str.split(): the maximal runs of non-whitespace characters
Split(chars) == TokenizeFrom(chars, Whitespace, 1, <<>>, <<>>)
\* re.findall(r'\b\w+\b', ...): the maximal runs of word characters
FindWords(chars) == TokenizeFrom(chars, NonWordChars, 1, <<>>, <<>>)

HasVietnameseChar(chars) == \E k \in 1..Len(chars) : chars[k] \in VietnameseChars

\* detect_language that looks at the text as given, without lower-casing it
DetectLanguageCaseSensitive(text) ==
    IF ~text.is_str THEN Raise("AttributeError")
    ELSE Ok(IF HasVietnameseChar(text.chars) THEN "vi" ELSE "en")

\* detect_language(text): 'vi' or 'en'; text.lower() raises on a non-string
DetectLanguage(text) ==
    IF ~text.is_str THEN Raise("AttributeError")
    ELSE Ok(IF HasVietnameseChar(Lower(text.chars)) THEN "vi" ELSE "en")

FILLER_WORDS_EN ==
    {<<"u", "m">>, <<"u", "h">>, <<"e", "r">>, <<"l", "i", "k", "e">>, <<"y", "o", "u">>, <<"k", "n", "o", "w">>, <<"i">>, <<"m", "e", "a", "n">>, <<"s", "o">>, <<"a", "c", "t", "u", "a", "l", "l", "y">>}
FILLER_WORDS_VI ==
    {<<"a_grave">>, <<"u_horn_grave">>, <<"o_horn_grave">>, <<"u_horn">>,
     <<"t", "h", "i_grave">>, <<"m", "a_grave">>, <<"l", "a_grave">>,
     <<"k", "i", "e_circ_hook", "u">>,
     <<"t", "u_horn_acute", "c", " ", "l", "a_grave">>,
     <<"v", "a_dot_circ", "y", " ", "d_stroke", "o_acute">>}

GetFillerWordsForLanguage(language) ==
    IF language = "vi" THEN FILLER_WORDS_VI ELSE FILLER_WORDS_EN

CountIn(words, lexicon) == Cardinality({k \in 1..Len(words) : words[k] \in lexicon})

\* count_filler_words that matches the tokens of the transcript as given
CountFillerWordsCaseSensitive(chars, language) ==
    CountIn(Split(chars), GetFillerWordsForLanguage(language))

\* count_filler_words(transcript, language)
CountFillerWords(chars, language) ==
    CountIn(Split(Lower(chars)), GetFillerWordsForLanguage(language))

\* common_words of detect_repetitions
CommonWords ==
    {<<"t", "h", "e">>, <<"a">>, <<"a", "n">>, <<"a", "n", "d">>, <<"i", "n">>, <<"o", "n">>,
     <<"a", "t">>, <<"t", "o">>, <<"f", "o", "r">>, <<"w", "i", "t", "h">>, <<"b", "y">>, <<"o", "f">>,
     <<"l", "a_grave">>, <<"v", "a_grave">>, <<"t", "h", "i_grave">>,
     <<"o_horn_hook">>, <<"t", "r", "o", "n", "g">>, <<"n", "g", "o", "a_grave", "i">>,
     <<"d_stroke", "o_acute">>, <<"n", "a_grave", "y">>, <<"k", "i", "a">>}

\* Counter(words)[w]
CountOf(words, w) == Cardinality({k \in 1..Len(words) : words[k] = w})

RECURSIVE SumCounts(_, _)
SumCounts(words, keys) ==
    IF keys = <<>> THEN 0
    ELSE CountOf(words, Head(keys)) + SumCounts(words, Tail(keys))

\* the distinct words in the order of their first occurrence (the key order
\* of Counter(words))
RECURSIVE CounterKeysFrom(_, _, _)
CounterKeysFrom(words, k, keys) ==
    IF k > Len(words) THEN keys
    ELSE CounterKeysFrom(words, k + 1,
                         IF \E j \in 1..Len(keys) : keys[j] = words[k]
                         THEN keys ELSE Append(keys, words[k]))
CounterKeys(words) == CounterKeysFrom(words, 1, <<>>)

\* the comprehension without its stop-word filter
RepetitiveWithStopWords(words) ==
    SelectSeq(CounterKeys(words),
              LAMBDA w : CountOf(words, w) > 3 /\ Len(w) > 1)

\* the words kept by the comprehension of detect_repetitions
Repetitive(words) ==
    SelectSeq(CounterKeys(words),
              LAMBDA w : /\ CountOf(words, w) > 3
                         /\ w \notin CommonWords
                         /\ Len(w) > 1)

\* the count as the occurrences beyond the third of each kept word
RepetitionsOfExcess(words, keys) == <<SumCounts(words, keys) - 3 * Len(keys), keys>>

\* sum(repetitions.values()), list(repetitions.keys())
RepetitionsOf(words, keys) == <<SumCounts(words, keys), keys>>

\* detect_repetitions(transcript): (repetition_count, repeated_words)
DetectRepetitionsIn(words) == RepetitionsOf(words, Repetitive(words))
DetectRepetitions(chars) == DetectRepetitionsIn(FindWords(Lower(chars)))

-----------------------------------------------------------------------------
(* Audio.  Decoding (pydub) and signal processing (librosa) are libraries:  *)
(* an audio value records what they yield for the bytes handed in.          *)
(*   decodes    load_mp3_as_np returns samples (FALSE: it returns None)     *)
(*   sr, y_len  the sample rate returned and len(y)                         *)
(*   rms_fails  the energy computation raises inside extract_audio_features *)
(*   energy     the RMS envelope, one natural per frame                     *)
(*   voiced, f0_std   number of frames with f0 > 0 and np.std over them     *)
(*   rate_cv    std/mean of the per-chunk onset rates, None when            *)
(*              calculate_speech_rate_consistency has too little to compare *)
(*   reload_fails   the decoder runs out of memory when                     *)
(*              analyze_audio_transcript_mismatch loads the bytes again:    *)
(*              load_mp3_as_np returns None there                           *)

SAMPLE_RATE == 22050
FRAME_SIZE == 512
HOP_LENGTH == 256
DIGITS_AFTER_DECIMAL == 2
MAX_DURATION == 300
MIN_SILENCE_DURATION == R(1, 2)
SILENCE_THRESHOLD_FACTOR == R(1, 2)

WPM_RANGE_EN                == <<RInt(80), RInt(220), RInt(150)>>
PAUSE_FREQ_RANGE_EN         == <<RInt(0), RInt(40), RInt(12)>>
AVG_PAUSE_DURATION_RANGE_EN == <<R(2, 10), R(15, 10), R(6, 10)>>
FILLER_WORD_RATIO_RANGE_EN  == <<R(2, 100), R(3, 10), R(6, 100)>>
PITCH_VARIATION_RANGE_EN    == <<RInt(50), RInt(300), RInt(130)>>

WPM_RANGE_VI                == <<RInt(70), RInt(200), RInt(140)>>
PAUSE_FREQ_RANGE_VI         == <<RInt(0), RInt(45), RInt(15)>>
AVG_PAUSE_DURATION_RANGE_VI == <<R(2, 10), R(17, 10), R(7, 10)>>
FILLER_WORD_RATIO_RANGE_VI  == <<R(2, 100), R(3, 10), R(6, 100)>>
PITCH_VARIATION_RANGE_VI    == <<RInt(80), RInt(350), RInt(160)>>

\* get_ranges_for_language(language)
GetRangesForLanguage(language) ==
    IF language = "vi"
    THEN [wpm |-> WPM_RANGE_VI, pause_freq |-> PAUSE_FREQ_RANGE_VI,
          pause_duration |-> AVG_PAUSE_DURATION_RANGE_VI,
          filler_ratio |-> FILLER_WORD_RATIO_RANGE_VI,
          pitch_variation |-> PITCH_VARIATION_RANGE_VI]
    ELSE [wpm |-> WPM_RANGE_EN, pause_freq |-> PAUSE_FREQ_RANGE_EN,
          pause_duration |-> AVG_PAUSE_DURATION_RANGE_EN,
          filler_ratio |-> FILLER_WORD_RATIO_RANGE_EN,
          pitch_variation |-> PITCH_VARIATION_RANGE_EN]

\* the integer nearest to a value with floor f, where twice = 2 * (value - f):
\* ties go to the even one
NearestEven(twice, f) ==
    IF RLt(twice, ROne) THEN f
    ELSE IF RLt(ROne, twice) THEN f + 1
    ELSE IF f % 2 = 0 THEN f ELSE f + 1
RoundFrom(a, f) == NearestEven(RSub(RMul(a, RInt(2)), RInt(2 * f)), f)

\* round(x): to the nearest integer, ties to the even one
PyRound(a) == RoundFrom(a, RFloor(a))

\* round(num, DIGITS_AFTER_DECIMAL) of the exact value
RoundScore(num) == R(PyRound(RMul(num, RInt(100))), 100)

\* load_mp3_as_np(audio_bytes): (samples, sr), or (None, None) when the bytes
\* do not load; the samples are kept as their number
LoadMp3AsNp(audio) ==
    IF audio.decodes THEN [loaded |-> TRUE, y_len |-> audio.y_len, sr |-> audio.sr]
    ELSE [loaded |-> FALSE, y_len |-> 0, sr |-> 0]

\* len(y) / sr if sr > 0 else 0
RawDuration(y_len, sr) == IF sr > 0 THEN R(y_len, sr) ELSE RZero

\* the features of y, truncated to MAX_DURATION when longer
Features(y_len, sr, d0, energy, f0) ==
    IF RLt(RInt(MAX_DURATION), d0)
    THEN [y_len |-> MAX_DURATION * sr, sr |-> sr, duration |-> RInt(MAX_DURATION),
          energy |-> energy, f0 |-> f0]
    ELSE [y_len |-> y_len, sr |-> sr, duration |-> d0, energy |-> energy, f0 |-> f0]

\* extract_audio_features that raises when the energy computation fails
ExtractAudioFeaturesRaising(audio) ==
    IF ~audio.decodes \/ audio.rms_fails THEN Raise("ValueError")
    ELSE Ok(Features(audio.y_len, audio.sr, RawDuration(audio.y_len, audio.sr),
                     audio.energy, [voiced |-> audio.voiced, std |-> audio.f0_std]))

\* extract_audio_features(audio_bytes): (y, sr, duration, energy, f0), raising
\* ValueError when the audio does not load and falling back to one-frame
\* placeholders when the energy computation fails
ExtractAudioFeatures(audio) ==
    IF ~LoadMp3AsNp(audio).loaded THEN Raise("ValueError")
    ELSE IF audio.rms_fails
    THEN Ok(Features(audio.y_len, audio.sr, RawDuration(audio.y_len, audio.sr),
                     <<0>>, [voiced |-> 0, std |-> 0]))
    ELSE Ok(Features(audio.y_len, audio.sr, RawDuration(audio.y_len, audio.sr),
                     audio.energy, [voiced |-> audio.voiced, std |-> audio.f0_std]))

RECURSIVE SumSeq(_)
SumSeq(q) == IF q = <<>> THEN 0 ELSE Head(q) + SumSeq(Tail(q))

\* every run appended, however short
AppendAlways(segments, silence_start, silence_end, duration, sr, hop_length) ==
    Append(segments, <<R(silence_start * hop_length, sr),
                       R(silence_end * hop_length, sr)>>)

\* a run appended only when longer than the minimum
AppendIfLonger(segments, silence_start, silence_end, duration, sr, hop_length) ==
    IF RLt(MIN_SILENCE_DURATION, duration)
    THEN Append(segments, <<R(silence_start * hop_length, sr),
                            R(silence_end * hop_length, sr)>>)
    ELSE segments

\* the run [silence_start, silence_end) of the given duration, appended when
\* long enough
AppendIfLong(segments, silence_start, silence_end, duration, sr, hop_length) ==
    IF RLe(MIN_SILENCE_DURATION, duration)
    THEN Append(segments, <<R(silence_start * hop_length, sr),
                            R(silence_end * hop_length, sr)>>)
    ELSE segments
EmitIfLong(segments, silence_start, silence_end, sr, hop_length) ==
    AppendIfLong(segments, silence_start, silence_end,
                 R((silence_end - silence_start) * hop_length, sr), sr, hop_length)

\* the frame loop of detect_silence from frame k (0-based) on, then the check
\* for a run still open at the end
RECURSIVE SilenceScan(_, _, _, _, _, _, _)
SilenceScan(is_silence, k, in_silence, silence_start, segments, sr, hop_length) ==
    IF k >= Len(is_silence)
    THEN IF in_silence
         THEN EmitIfLong(segments, silence_start, Len(is_silence), sr, hop_length)
         ELSE segments
    ELSE LET silent == is_silence[k + 1]
         IN  IF silent /\ ~in_silence
             THEN SilenceScan(is_silence, k + 1, TRUE, k, segments, sr, hop_length)
             ELSE IF ~silent /\ in_silence
             THEN SilenceScan(is_silence, k + 1, FALSE, silence_start,
                              EmitIfLong(segments, silence_start, k, sr, hop_length),
                              sr, hop_length)
             ELSE SilenceScan(is_silence, k + 1, in_silence, silence_start, segments,
                              sr, hop_length)

\* frames at the threshold counted as silent
IsSilenceInclusive(energy, silence_threshold) ==
    [k \in 1..Len(energy) |-> RLe(RInt(energy[k]), silence_threshold)]

\* is_silence = energy < silence_threshold
IsSilence(energy, silence_threshold) ==
    [k \in 1..Len(energy) |-> RLt(RInt(energy[k]), silence_threshold)]

ScanFrames(is_silence, sr, hop_length) ==
    IF sr = 0 /\ \E k \in 1..Len(is_silence) : is_silence[k]
    THEN <<>>
    ELSE SilenceScan(is_silence, 0, FALSE, 0, <<>>, sr, hop_length)

\* detect_silence that always compares with the default factor
DetectSilenceDefaultFactor(energy, sr, hop_length, threshold_factor) ==
    IF Len(energy) < 2 THEN <<>>
    ELSE ScanFrames(IsSilence(energy,
                              RMul(R(SumSeq(energy), Len(energy)),
                                   SILENCE_THRESHOLD_FACTOR)),
                    sr, hop_length)

\* detect_silence(energy, sr, hop_length, threshold_factor): the list of
\* (start, end) in seconds; [] on fewer than 2 frames and on any exception
\* (the division by sr = 0 when a run closes)
DetectSilence(energy, sr, hop_length, threshold_factor) ==
    IF Len(energy) < 2 THEN <<>>
    ELSE ScanFrames(IsSilence(energy,
                              RMul(R(SumSeq(energy), Len(energy)), threshold_factor)),
                    sr, hop_length)

\* the rate per second instead of per minute
CalculateWpmPerSecond(num_words, duration) ==
    IF RLt(RZero, duration) THEN RDiv(RInt(num_words), duration)
    ELSE RZero

\* calculate_wpm(num_words, duration)
CalculateWpm(num_words, duration) ==
    IF RLt(RZero, duration) THEN RDiv(RInt(num_words), RDiv(duration, RInt(60)))
    ELSE RZero

\* calculate_pause_frequency(silence_segments, duration)
CalculatePauseFrequency(silence_segments, duration) ==
    IF RLt(RZero, duration)
    THEN RDiv(RInt(Len(silence_segments)), RDiv(duration, RInt(60)))
    ELSE RZero

RECURSIVE SumDurations(_)
SumDurations(segs) ==
    IF segs = <<>> THEN RZero
    ELSE RAdd(RSub(Head(segs)[2], Head(segs)[1]), SumDurations(Tail(segs)))

\* calculate_average_pause_duration(silence_segments)
CalculateAveragePauseDuration(silence_segments) ==
    IF silence_segments # <<>>
    THEN RDiv(SumDurations(silence_segments), RInt(Len(silence_segments)))
    ELSE RZero

\* calculate_pitch_variation(f0): np.std of the voiced frames when more than one
CalculatePitchVariation(f0) ==
    IF f0.voiced > 1 THEN RInt(f0.std) ELSE RZero

\* the chunks of calculate_speech_rate_consistency: the starts i = 0,
\* chunk_samples, ... below len(y) with i + chunk_samples // 2 <= len(y)
ChunkCount(y_len, chunk_samples) ==
    Cardinality({j \in 0..(y_len \div chunk_samples) :
                    /\ j * chunk_samples < y_len
                    /\ j * chunk_samples + chunk_samples \div 2 <= y_len})

\* the consistency without the clamp into [0, 1]
ConsistencyOfUnclamped(cv) == RSub(ROne, RDiv(cv, R(1, 2)))

\* max(0, min(1, 1 - (cv / 0.5)))
ConsistencyOf(cv) == RMax(RZero, RMin(ROne, RSub(ROne, RDiv(cv, R(1, 2)))))

\* calculate_speech_rate_consistency(audio_bytes): 1.0 when the audio does not
\* load, is shorter than a second, has fewer than two 3-second chunks among
\* its first 60 seconds or fewer than two measured chunk rates (range() with
\* a zero step raises and is caught)
CalculateSpeechRateConsistency(audio) ==
    IF ~audio.decodes \/ audio.y_len < audio.sr THEN ROne
    ELSE IF audio.sr = 0 THEN ROne
    ELSE IF ChunkCount(IF audio.y_len < 60 * audio.sr THEN audio.y_len
                       ELSE 60 * audio.sr,
                       3 * audio.sr) < 2
    THEN ROne
    ELSE IF audio.rate_cv = None THEN ROne
    ELSE ConsistencyOf(audio.rate_cv)

-----------------------------------------------------------------------------
(* The Vietnamese-only checks *)

\* floor of the square root of a natural, by bisection: lo^2 <= x < hi^2
RECURSIVE ISqrtBetween(_, _, _)
ISqrtBetween(x, lo, hi) ==
    IF hi - lo <= 1 THEN lo
    ELSE LET mid == (lo + hi) \div 2
         IN  IF mid * mid <= x THEN ISqrtBetween(x, mid, hi)
             ELSE ISqrtBetween(x, lo, mid)
ISqrt(x) == ISqrtBetween(x, 0, IF x + 1 < 46340 THEN x + 1 ELSE 46340)

\* the square root np.std takes: exact when numerator and denominator are
\* squares, else rounded down to hundredths
SqrtFrom(a, sn, sd) ==
    IF sn * sn = a[1] /\ sd * sd = a[2] THEN R(sn, sd)
    ELSE R(ISqrt((a[1] * 10000) \div a[2]), 100)
RSqrt(a) == SqrtFrom(a, ISqrt(a[1]), ISqrt(a[2]))

RECURSIVE RSum(_)
RSum(q) == IF q = <<>> THEN RZero ELSE RAdd(Head(q), RSum(Tail(q)))

\* np.mean and np.std (population) of a non-empty sequence of rationals
RMean(q) == RDiv(RSum(q), RInt(Len(q)))
SquaredDeviations(q, m) ==
    [k \in 1..Len(q) |-> RMul(RSub(q[k], m), RSub(q[k], m))]
RStd(q) == RSqrt(RMean(SquaredDeviations(q, RMean(q))))

\* re.split(r'[.!?]+', transcript), stripped, the empty pieces dropped
Sentences(chars) ==
    SelectSeq(TokenizeFrom(chars, SentenceEnds, 1, <<>>, <<>>),
              LAMBDA piece : \E k \in 1..Len(piece) : piece[k] \notin Whitespace)

FormalMarkersEn ==
    {<<"t", "h", "e", "r", "e", "f", "o", "r", "e">>,
     <<"t", "h", "u", "s">>,
     <<"c", "o", "n", "s", "e", "q", "u", "e", "n", "t", "l", "y">>,
     <<"f", "u", "r", "t", "h", "e", "r", "m", "o", "r", "e">>,
     <<"m", "o", "r", "e", "o", "v", "e", "r">>,
     <<"h", "o", "w", "e", "v", "e", "r">>,
     <<"n", "e", "v", "e", "r", "t", "h", "e", "l", "e", "s", "s">>,
     <<"r", "e", "g", "a", "r", "d", "i", "n", "g">>}
FormalMarkersVi ==
    {<<"t", "u", "y", " ", "n", "h", "i", "e_circ", "n">>,
     <<"m", "a_dot_breve", "c", " ", "d", "u_grave">>,
     <<"v", "i_grave", " ", "v", "a_dot_circ", "y">>,
     <<"d", "o", " ", "d_stroke", "o_acute">>,
     <<"t", "h", "e", "o", " ", "d_stroke", "o_acute">>,
     <<"n", "g", "o", "a_grave", "i", " ", "r", "a">>,
     <<"d_stroke", "o_circ_grave", "n", "g", " ", "t", "h", "o_horn_grave", "i">>,
     <<"x", "e_acute", "t", " ", "v", "e_circ_grave">>}
DisfluenciesEn ==
    {<<"u", "m">>,
     <<"u", "h">>,
     <<"l", "i", "k", "e">>,
     <<"y", "o", "u", " ", "k", "n", "o", "w">>,
     <<"i", " ", "m", "e", "a", "n">>,
     <<"s", "o", "r", "t", " ", "o", "f">>}
DisfluenciesVi ==
    {<<"a_grave">>,
     <<"u_horn_grave">>,
     <<"k", "i", "e_circ_hook", "u">>,
     <<"t", "h", "i_grave", " ", "l", "a_grave">>,
     <<"t", "u_horn_acute", "c", " ", "l", "a_grave">>}

\* Feature 1: unique words over words
LexicalDiversity(words) ==
    R(Cardinality({words[k] : k \in 1..Len(words)}), Len(words))

\* Feature 2: np.std(sent_lengths) / max(1, np.mean(sent_lengths))
SentLengths(sentences) ==
    [k \in 1..Len(sentences) |-> RInt(Len(FindWords(sentences[k])))]
SentLengthVariation(sent_lengths) ==
    RDiv(RStd(sent_lengths), RMax(ROne, RMean(sent_lengths)))

\* Feature 3: the share of 3-grams that occur more than once
ThreeGrams(words) ==
    [k \in 1..(Len(words) - 2) |-> <<words[k], words[k + 1], words[k + 2]>>]
RepetitionScore(three_grams) ==
    RMin(ROne,
         RDiv(RInt(Cardinality({g \in {three_grams[k] : k \in 1..Len(three_grams)} :
                                    CountOf(three_grams, g) > 1})),
              RMax(ROne, R(Len(three_grams), 10))))

\* Features 4 and 5: min(1, count / max(1, len(words) / per))
DensityScore(words, lexicon, per) ==
    RMin(ROne, RDiv(RInt(CountIn(words, lexicon)), RMax(ROne, R(Len(words), per))))
FormalityScore(words, language) ==
    DensityScore(words, IF language = "vi" THEN FormalMarkersVi ELSE FormalMarkersEn, 20)
DisfluencyScore(words, language) ==
    DensityScore(words, IF language = "vi" THEN DisfluenciesVi ELSE DisfluenciesEn, 30)

\* the combined score with the formality term not inverted
HumanScoreFormalityAdded(lexical_diversity, sent_length_variation, repetition_score, formality_score, disfluency_score) ==
    RMin(ROne, RMax(RZero,
        RAdd(RAdd(RAdd(RAdd(RMul(lexical_diversity, R(3, 10)),
                            RMul(sent_length_variation, R(2, 10))),
                       RMul(RSub(ROne, repetition_score), R(2, 10))),
                  RMul(formality_score, R(15, 100))),
             RMul(disfluency_score, R(15, 100)))))

\* the combined score, clamped into [0, 1]
HumanScore(lexical_diversity, sent_length_variation, repetition_score, formality_score, disfluency_score) ==
    RMin(ROne, RMax(RZero,
        RAdd(RAdd(RAdd(RAdd(RMul(lexical_diversity, R(3, 10)),
                            RMul(sent_length_variation, R(2, 10))),
                       RMul(RSub(ROne, repetition_score), R(2, 10))),
                  RMul(RSub(ROne, formality_score), R(15, 100))),
             RMul(disfluency_score, R(15, 100)))))

AiScoreOf(words, sentences, language) ==
    IF Len(words) < 10 THEN ROne
    ELSE IF Len(sentences) < 2 THEN ROne
    ELSE HumanScore(LexicalDiversity(words),
                    SentLengthVariation(SentLengths(sentences)),
                    RepetitionScore(ThreeGrams(words)),
                    FormalityScore(words, language),
                    DisfluencyScore(words, language))

\* detect_ai_generated_text(transcript): 1.0 is likely human
DetectAiGeneratedText(chars) ==
    AiScoreOf(FindWords(Lower(chars)), Sentences(chars),
              DetectLanguage(Str(chars)).value)

\* the per-chunk mean energies of analyze_audio_transcript_mismatch
SegmentEnergies(energy, segment_length) ==
    [c \in 1..(Len(energy) \div segment_length) |->
        R(SumSeq(SubSeq(energy, (c - 1) * segment_length + 1, c * segment_length)),
          segment_length)]

\* Check 2: std / mean of the chunk energies, scored against the 0.2-0.6 band
EnergyVariation(segment_energies) ==
    IF RLt(RZero, RMean(segment_energies))
    THEN RDiv(RStd(segment_energies), RMean(segment_energies))
    ELSE RZero
EnergyMatchScore(energy_variation) ==
    IF RLe(energy_variation, R(6, 10))
    THEN RMin(ROne, RDiv(energy_variation, R(4, 10)))
    ELSE RMax(RZero, RSub(ROne, RDiv(RSub(energy_variation, R(6, 10)), R(4, 10))))

\* Check 3: min(len(silence_segments), expected) / expected
SilenceRatio(n_silences, expected_silence_count) ==
    R(IF n_silences < expected_silence_count THEN n_silences
      ELSE expected_silence_count,
      expected_silence_count)

MatchScore(duration_ratio, energy_match_score, silence_ratio) ==
    RMin(ROne, RMax(RZero,
        RAdd(RAdd(RMul(duration_ratio, R(4, 10)), RMul(energy_match_score, R(4, 10))),
             RMul(silence_ratio, R(2, 10)))))

\* the match check with 0.8 standing in for the energy check alone when the
\* chunks are shorter than 5 frames
MismatchOfEnergyDefault(feat, duration, expected_duration, n_sentences, segment_length) ==
    IF REq(RMax(duration, expected_duration), RZero) THEN Raise("ZeroDivisionError")
    ELSE Ok(MatchScore(
            RDiv(RMin(duration, expected_duration), RMax(duration, expected_duration)),
            IF segment_length < 5 THEN R(8, 10)
            ELSE EnergyMatchScore(EnergyVariation(SegmentEnergies(feat.energy, segment_length))),
            SilenceRatio(Len(DetectSilence(feat.energy, feat.sr, HOP_LENGTH,
                                           SILENCE_THRESHOLD_FACTOR)),
                         IF n_sentences - 1 > 1 THEN n_sentences - 1 ELSE 1)))

MismatchOf(feat, duration, expected_duration, n_sentences, segment_length) ==
    IF REq(RMax(duration, expected_duration), RZero) THEN Raise("ZeroDivisionError")
    ELSE IF segment_length < 5 THEN Ok(R(8, 10))
    ELSE Ok(MatchScore(
            RDiv(RMin(duration, expected_duration), RMax(duration, expected_duration)),
            EnergyMatchScore(EnergyVariation(SegmentEnergies(feat.energy, segment_length))),
            SilenceRatio(Len(DetectSilence(feat.energy, feat.sr, HOP_LENGTH,
                                           SILENCE_THRESHOLD_FACTOR)),
                         IF n_sentences - 1 > 1 THEN n_sentences - 1 ELSE 1)))

MismatchFrom(feat, word_count, n_sentences) ==
    MismatchOf(feat, feat.duration, R(word_count, 2), n_sentences,
               Len(feat.energy) \div (IF n_sentences > 3 THEN n_sentences ELSE 3))

MismatchAfterFeatures(feat, chars) ==
    IF feat.raised THEN feat
    ELSE MismatchFrom(feat.value, Len(Split(chars)), Len(Sentences(chars)))

\* analyze_audio_transcript_mismatch(audio_bytes, transcript): a value in
\* [0, 1], or the exception it raises
AnalyzeAudioTranscriptMismatch(audio, chars) ==
    MismatchAfterFeatures(IF audio.reload_fails THEN Raise("ValueError")
                          ELSE ExtractAudioFeatures(audio),
                          chars)

-----------------------------------------------------------------------------
(* evaluate_fluency *)

\* scores = ["A", "B", "C", "D", "F", "F"], indexed from 0
\* a bucket list with a sixth letter at index 4
ScoresWithE == <<"A", "B", "C", "D", "E", "F">>

Scores == <<"A", "B", "C", "D", "F", "F">>
ScoreAt(index) == Scores[index + 1]

\* int(x): truncation toward zero
PyInt(a) == IF a[1] >= 0 THEN a[1] \div a[2] ELSE -((-a[1]) \div a[2])

\* round(x) with ties going up
RoundHalfUp(a) == RFloor(RAdd(a, R(1, 2)))

Clamp05(n) == IF n < 0 THEN 0 ELSE IF n > 5 THEN 5 ELSE n

\* the bucket index counted up from 0 instead of down from 5
ScoreIndexAscending(basic_fluency_score) ==
    Clamp05(PyInt(RMul(basic_fluency_score, RInt(5))))

\* the bucket index taken with round() in place of int()
ScoreIndexRounded(basic_fluency_score) ==
    Clamp05(5 - PyRound(RMul(basic_fluency_score, RInt(5))))

\* score_index = min(5, max(0, int(5 - basic_fluency_score * 5)))
ScoreIndex(basic_fluency_score) ==
    Clamp05(PyInt(RSub(RInt(5), RMul(basic_fluency_score, RInt(5)))))

\* 0.25 wpm + 0.25 pause frequency + 0.2 pause duration + 0.2 filler ratio
\* + 0.1 pitch variation, clamped into [0, 1]; 0.0 when a term raises
WeightedScore(n1, n2, n3, n4, n5) ==
    IF n1.raised \/ n2.raised \/ n3.raised \/ n4.raised \/ n5.raised THEN RZero
    ELSE RMax(RZero, RMin(ROne,
            RAdd(RAdd(RAdd(RAdd(RMul(R(25, 100), n1.value),
                                RMul(R(25, 100), n2.value)),
                           RMul(R(2, 10), n3.value)),
                      RMul(R(2, 10), n4.value)),
                 RMul(R(1, 10), n5.value))))

\* basic_fluency_score
BasicFluencyScore(wpm, pause_freq, avg_pause_duration, filler_count, num_words, pitch_variation, ranges) ==
    WeightedScore(NormalizeScore(wpm, ranges.wpm),
                  NormalizeScore(pause_freq, ranges.pause_freq),
                  NormalizeScore(avg_pause_duration, ranges.pause_duration),
                  NormalizeScore(R(filler_count, IF num_words > 1 THEN num_words ELSE 1),
                                 ranges.filler_ratio),
                  NormalizeScore(pitch_variation, ranges.pitch_variation))

\* the values evaluate_fluency has computed when it prepares the result
Locals(wpm, pause_freq, avg_pause_duration, filler_count, pitch_variation, basic, repetitions, speech_rate_consistency) ==
    [wpm |-> wpm, pause_freq |-> pause_freq,
     avg_pause_duration |-> avg_pause_duration, filler_count |-> filler_count,
     pitch_variation |-> pitch_variation,
     basic_fluency_score |-> basic,
     score_index |-> ScoreIndex(basic),
     repetition_count |-> repetitions[1], repetitive_words |-> repetitions[2],
     speech_rate_consistency |-> speech_rate_consistency]

LocalsOfMetrics(audio, chars, language, num_words, wpm, pause_freq, avg_pause_duration, filler_count, pitch_variation) ==
    Locals(wpm, pause_freq, avg_pause_duration, filler_count, pitch_variation,
           BasicFluencyScore(wpm, pause_freq, avg_pause_duration, filler_count,
                             num_words, pitch_variation,
                             GetRangesForLanguage(language)),
           DetectRepetitions(chars),
           CalculateSpeechRateConsistency(audio))

LocalsOfSilence(audio, chars, language, f0, duration, silence_segments, num_words) ==
    LocalsOfMetrics(audio, chars, language, num_words,
                    CalculateWpm(num_words, duration),
                    CalculatePauseFrequency(silence_segments, duration),
                    CalculateAveragePauseDuration(silence_segments),
                    CountFillerWords(chars, language),
                    CalculatePitchVariation(f0))

\* the values evaluate_fluency computes once the features are extracted
FluencyLocals(audio, chars, language, feat) ==
    LocalsOfSilence(audio, chars, language, feat.f0,
                    IF RLe(feat.duration, RZero) THEN ROne ELSE feat.duration,
                    DetectSilence(feat.energy, feat.sr, HOP_LENGTH,
                                  SILENCE_THRESHOLD_FACTOR),
                    Len(Split(chars)))

\* the minimal result returned when the audio features cannot be extracted
AudioFailedResult(language) ==
    [language |-> language, overall_score |-> "F",
     error |-> <<"Audio processing failed">>,
     wpm |-> RZero, pause_frequency |-> RZero, average_pause_duration |-> RZero,
     filler_word_count |-> RZero, pitch_variation |-> RZero,
     repetition_count |-> RZero, repetitive_words |-> <<>>,
     speech_rate_consistency |-> RZero]

\* the outermost handler letting the exception through
OuterExceptReraise(exc) == Raise(exc)

\* the outermost handler: except Exception as e, return the failure result
OuterExcept(exc) ==
    Ok([language |-> "en", overall_score |-> "F",
        error |-> <<"Evaluation failed", exc>>,
        wpm |-> RZero, pause_frequency |-> RZero, average_pause_duration |-> RZero,
        filler_word_count |-> RZero, pitch_variation |-> RZero,
        repetition_count |-> RZero, repetitive_words |-> <<>>,
        speech_rate_consistency |-> RZero])

\* the result dictionary prepared on the normal path
BaseResult(language, loc) ==
    [language |-> language, overall_score |-> ScoreAt(loc.score_index),
     wpm |-> RoundScore(loc.wpm),
     pause_frequency |-> RoundScore(loc.pause_freq),
     average_pause_duration |-> RoundScore(loc.avg_pause_duration),
     filler_word_count |-> RoundScore(RInt(loc.filler_count)),
     pitch_variation |-> RoundScore(loc.pitch_variation),
     repetition_count |-> RInt(loc.repetition_count),
     repetitive_words |-> loc.repetitive_words,
     speech_rate_consistency |-> RoundScore(loc.speech_rate_consistency)]

\* scores[min(5, max(0, score_index + 1))]
Demoted(score_index) == ScoreAt(Clamp05(score_index + 1))

\* the Vietnamese branch demoting on a low authenticity score before the
\* match check raises
VietnameseResultDemotedBeforeRaise(result, score_index, ai_detection_score, match) ==
    IF match.raised
    THEN [result EXCEPT !.overall_score =
              IF RLt(ai_detection_score, R(5, 10)) THEN Demoted(score_index) ELSE @]
         @@ [human_likelihood_score |-> ROne, audio_transcript_match |-> ROne]
    ELSE [result EXCEPT !.overall_score =
              IF RLt(match.value, R(7, 10)) THEN Demoted(score_index)
              ELSE IF RLt(ai_detection_score, R(5, 10)) THEN Demoted(score_index)
              ELSE @]
         @@ [human_likelihood_score |-> ai_detection_score,
             audio_transcript_match |-> match.value]

\* the Vietnamese branch with the two demotions adding up
VietnameseResultCumulative(result, score_index, ai_detection_score, match) ==
    IF match.raised
    THEN result @@ [human_likelihood_score |-> ROne, audio_transcript_match |-> ROne]
    ELSE [result EXCEPT !.overall_score =
              IF RLt(match.value, R(7, 10)) /\ RLt(ai_detection_score, R(5, 10))
              THEN ScoreAt(Clamp05(score_index + 2))
              ELSE IF RLt(match.value, R(7, 10)) THEN Demoted(score_index)
              ELSE IF RLt(ai_detection_score, R(5, 10)) THEN Demoted(score_index)
              ELSE @]
         @@ [human_likelihood_score |-> ai_detection_score,
             audio_transcript_match |-> match.value]

\* the Vietnamese branch demoting on a low authenticity score only
VietnameseResultNoMatchCheck(result, score_index, ai_detection_score, match) ==
    IF match.raised
    THEN result @@ [human_likelihood_score |-> ROne, audio_transcript_match |-> ROne]
    ELSE [result EXCEPT !.overall_score =
              IF RLt(ai_detection_score, R(5, 10)) THEN Demoted(score_index)
              ELSE @]
         @@ [human_likelihood_score |-> ai_detection_score,
             audio_transcript_match |-> match.value]

\* the Vietnamese branch once both checks returned or one raised: the two
\* fields, the one-bucket demotions, and the defaults of 1.0 on an exception
VietnameseResult(result, score_index, ai_detection_score, match) ==
    IF match.raised
    THEN result @@ [human_likelihood_score |-> ROne, audio_transcript_match |-> ROne]
    ELSE [result EXCEPT !.overall_score =
              IF RLt(match.value, R(7, 10)) THEN Demoted(score_index)
              ELSE IF RLt(ai_detection_score, R(5, 10)) THEN Demoted(score_index)
              ELSE @]
         @@ [human_likelihood_score |-> ai_detection_score,
             audio_transcript_match |-> match.value]

VietnameseAdjusted(result, audio, chars, score_index) ==
    VietnameseResult(result, score_index, DetectAiGeneratedText(chars),
                     AnalyzeAudioTranscriptMismatch(audio, chars))

ResultOf(audio, chars, language, loc) ==
    IF language = "vi"
    THEN VietnameseAdjusted(BaseResult(language, loc), audio, chars, loc.score_index)
    ELSE BaseResult(language, loc)

AfterFeatures(audio, chars, language, feat) ==
    IF feat.raised THEN Ok(AudioFailedResult(language))
    ELSE Ok(ResultOf(audio, chars, language,
                     FluencyLocals(audio, chars, language, feat.value)))

AfterLanguage(audio, transcript, language) ==
    IF language.raised THEN language
    ELSE AfterFeatures(audio, transcript.chars, language.value,
                       ExtractAudioFeatures(audio))

\* the body of the outer try of evaluate_fluency: a result, or the exception
\* that reaches the outermost handler
EvaluateFluencyBody(audio, transcript) ==
    AfterLanguage(audio, transcript, DetectLanguage(transcript))

CatchOuter(body) == IF body.raised THEN OuterExcept(body.exc) ELSE body

\* evaluate_fluency(audio_bytes, transcript)
EvaluateFluency(audio, transcript) ==
    CatchOuter(EvaluateFluencyBody(audio, transcript))

\* the rules with the two pause rules in the opposite order
FeedbackRulesPausesSwapped(fr, language, ranges, human_score, match_score) ==
    (IF RLt(fr.wpm, ranges.wpm[1]) THEN <<"rate_slow">>
     ELSE IF RLt(ranges.wpm[2], fr.wpm) THEN <<"rate_fast">> ELSE <<>>)
    \o (IF RLt(ranges.pause_duration[2], fr.average_pause_duration)
        THEN <<"pause_duration">> ELSE <<>>)
    \o (IF RLt(ranges.pause_freq[2], fr.pause_frequency)
        THEN <<"pause_frequency">> ELSE <<>>)
    \o (IF RLt(RZero, fr.filler_word_count) THEN <<"fillers">> ELSE <<>>)
    \o (IF RLt(RInt(5), fr.repetition_count) THEN <<"repetitions">> ELSE <<>>)
    \o (IF RLt(fr.speech_rate_consistency, R(6, 10)) THEN <<"consistency">> ELSE <<>>)
    \o (IF language = "vi" /\ RLt(human_score, R(7, 10))
        THEN <<"authenticity">> ELSE <<>>)
    \o (IF language = "vi" /\ RLt(match_score, R(7, 10)) THEN <<"match">> ELSE <<>>)

\* the rules of get_fluency_feedback that fire, in order, each message named
\* by its rule
FeedbackRules(fr, language, ranges, human_score, match_score) ==
    (IF RLt(fr.wpm, ranges.wpm[1]) THEN <<"rate_slow">>
     ELSE IF RLt(ranges.wpm[2], fr.wpm) THEN <<"rate_fast">> ELSE <<>>)
    \o (IF RLt(ranges.pause_freq[2], fr.pause_frequency)
        THEN <<"pause_frequency">> ELSE <<>>)
    \o (IF RLt(ranges.pause_duration[2], fr.average_pause_duration)
        THEN <<"pause_duration">> ELSE <<>>)
    \o (IF RLt(RZero, fr.filler_word_count) THEN <<"fillers">> ELSE <<>>)
    \o (IF RLt(RInt(5), fr.repetition_count) THEN <<"repetitions">> ELSE <<>>)
    \o (IF RLt(fr.speech_rate_consistency, R(6, 10)) THEN <<"consistency">> ELSE <<>>)
    \o (IF language = "vi" /\ RLt(human_score, R(7, 10))
        THEN <<"authenticity">> ELSE <<>>)
    \o (IF language = "vi" /\ RLt(match_score, R(7, 10)) THEN <<"match">> ELSE <<>>)

\* fluency_results.get(key, 1.0)
GetOrOne(fr, key) == IF key \in DOMAIN fr THEN fr[key] ELSE ROne

\* get_fluency_feedback(fluency_results)
GetFluencyFeedback(fr) ==
    FeedbackRules(fr, fr.language, GetRangesForLanguage(fr.language),
                  GetOrOne(fr, "human_likelihood_score"),
                  GetOrOne(fr, "audio_transcript_match"))

-----------------------------------------------------------------------------
(* Inputs *)

\* "Um", "cat" and the Vietnamese "chao" with a grave accent on the a
ModelWords == {<<"U", "m">>, <<"c", "a", "t">>, <<"c", "h", "a_grave", "o">>}

RECURSIVE Join(_)
Join(ws) ==
    IF ws = <<>> THEN <<>>
    ELSE IF Len(ws) = 1 THEN ws[1]
    ELSE ws[1] \o <<" ">> \o Join(Tail(ws))

\* most words of a drawn transcript
MaxWords == 4
\* most hops of a drawn recording: len(y) = hops * HOP_LENGTH
MaxHops == 3

\* ten times the Vietnamese word in two sentences of five, ten different
\* words followed by a one-word sentence, and ten times the filler "a" with
\* a grave accent in two sentences of five
LongTranscripts ==
    {Str(<<"c", "h", "a_grave", "o", " ", "c", "h", "a_grave", "o", " ",
           "c", "h", "a_grave", "o", " ", "c", "h", "a_grave", "o", " ",
           "c", "h", "a_grave", "o", ".", " ",
           "c", "h", "a_grave", "o", " ", "c", "h", "a_grave", "o", " ",
           "c", "h", "a_grave", "o", " ", "c", "h", "a_grave", "o", " ",
           "c", "h", "a_grave", "o">>),
     Str(<<"c", "h", "a_grave", "o", " ", "c", "a", "t", " ", "s", "a", "t", " ",
           "o", "n", " ", "m", "y", " ", "h", "a", "t", " ", "s", "o", " ",
           "i", " ", "r", "a", "n", " ", "u", "p", ".", " ", "U", "m">>),
     Str(<<"a_grave", " ", "a_grave", " ", "a_grave", " ", "a_grave", " ",
           "a_grave", ".", " ",
           "a_grave", " ", "a_grave", " ", "a_grave", " ", "a_grave", " ",
           "a_grave">>)}

EvalTranscripts ==
    {Str(Join(ws)) : ws \in UNION {[1..n -> ModelWords] : n \in 0..MaxWords}}
        \cup LongTranscripts
        \cup {NotAString}

Undecodable ==
    [decodes |-> FALSE, rms_fails |-> FALSE, sr |-> 0, y_len |-> 0, energy |-> <<>>,
     voiced |-> 0, f0_std |-> 0, rate_cv |-> None, reload_fails |-> FALSE]

\* what the pitch tracker and the onset analysis yield
PitchAndRate ==
    {[voiced |-> 0, f0_std |-> 0, rate_cv |-> None],
     [voiced |-> 5, f0_std |-> 130, rate_cv |-> R(1, 4)]}

\* a recording of hops * HOP_LENGTH samples at 512 Hz (the rate of the file
\* when resampling fell back to it), so one frame of the envelope is 0.5 s;
\* the envelope has 1 + len(y) // HOP_LENGTH frames
Recording(hops, energy, rms_fails, pr) ==
    [decodes |-> TRUE, rms_fails |-> rms_fails, sr |-> 512, y_len |-> hops * HOP_LENGTH,
     energy |-> energy, voiced |-> pr.voiced, f0_std |-> pr.f0_std,
     rate_cv |-> pr.rate_cv, reload_fails |-> FALSE]

EnergyLevels == {0, 3}

\* 7 s recordings (15 frames of the envelope, two 3-second chunks): a flat
\* envelope, one rising over its three thirds after an opening pause, and
\* one silent in its first third and loud in its last
LongEnergies ==
    {<<3, 3, 3, 3, 3, 3, 3, 3, 3, 3, 3, 3, 3, 3, 3>>,
     <<0, 2, 2, 3, 3, 4, 4, 4, 4, 4, 6, 6, 6, 6, 6>>,
     <<0, 0, 0, 0, 0, 3, 3, 3, 3, 3, 6, 6, 6, 6, 6>>}
LongRecordings ==
    {Recording(14, e, FALSE, [voiced |-> 5, f0_std |-> 130, rate_cv |-> cv]) :
        e \in LongEnergies, cv \in {R(1, 4), R(3, 2)}}

\* half a second of sound and half a second of silence under a very wide
\* pitch spread
HastyRecording ==
    Recording(1, <<3, 0>>, FALSE, [voiced |-> 5, f0_std |-> 700, rate_cv |-> None])

\* recordings that load at first and fail to load again for the match check
FailingReloads ==
    {[r EXCEPT !.reload_fails = TRUE] : r \in LongRecordings \cup {HastyRecording}}

EvalAudios ==
    {Undecodable, HastyRecording}
    \cup LongRecordings
    \cup FailingReloads
    \cup UNION {{Recording(h, e, FALSE, pr) :
                    e \in [1..(h + 1) -> EnergyLevels], pr \in PitchAndRate} :
                 h \in 0..MaxHops}
    \cup {Recording(h, [k \in 1..(h + 1) |-> 0], TRUE, pr) :
            h \in 0..MaxHops, pr \in PitchAndRate}


\* the parts of the state a specification does not use
IdleNorm ==
    /\ nvalue = RZero /\ nvalue2 = RZero
    /\ nrange = <<RZero, RZero, None>>
    /\ nres = Pending /\ nres2 = Pending
IdleGrade ==
    /\ gscore = RZero /\ gindex = -1 /\ ggrade = ""
    /\ gscore2 = RZero /\ gindex2 = -1
IdleEval  == eaudio = Undecodable /\ etranscript = NotAString /\ eout = Pending
IdleBatch ==
    /\ data = [has_submissions |-> FALSE, is_list |-> FALSE, items |-> <<>>]
    /\ pc = "idle" /\ submissions = <<>> /\ i = 0 /\ results = <<>>
    /\ all_fluency_scores = <<>> /\ fluency_results = Pending /\ response = Pending
IdleSilence ==
    /\ senergy = <<>> /\ ssr = 1 /\ shop = 1 /\ sfactor = RZero /\ sout = Pending
IdleText ==
    /\ ttext = NotAString /\ tlanguage = Pending /\ trepetitions = Pending
    /\ tfillers = Pending /\ thuman = Pending
IdleFeedback == fresult = Pending /\ ffeedback = Pending
IdleWpm == wwords = 0 /\ wduration = RZero /\ wwpm = Pending /\ wscore = Pending
IdlePure == IdleSilence /\ IdleText /\ IdleFeedback /\ IdleWpm

-----------------------------------------------------------------------------
(* SpecNorm: normalize_score applied to two values under one range triple *)

\* largest integer drawn for a value, a bound or an ideal
MaxNorm == 4
NormVals == (-1)..MaxNorm
NormIdeals == {RInt(k) : k \in NormVals} \cup {None}

InRange(v, range_values) == RLe(range_values[1], v) /\ RLe(v, range_values[2])

NormCalled == nres # Pending /\ nres2 # Pending

Normalize ==
    /\ nres = Pending
    /\ nres'  = NormalizeScore(nvalue, nrange)
    /\ nres2' = NormalizeScore(nvalue2, nrange)
    /\ UNCHANGED <<nvalue, nvalue2, nrange>>

NextNorm == Normalize /\ UNCHANGED <<gradeVars, evalVars, batchVars, pureVars>>

\* the range triples of the data model: min <= max, and the ideal unset or
\* within [min, max] (every table of score.py is one)
MetricRanges ==
    {r \in {<<RInt(lo), RInt(hi), ideal>> :
                lo \in NormVals, hi \in NormVals, ideal \in NormIdeals} :
        /\ RLe(r[1], r[2])
        /\ r[3] = None \/ InRange(r[3], r)}

InitNorm ==
    /\ nvalue \in {RInt(k) : k \in NormVals}
    /\ nvalue2 \in {RInt(k) : k \in NormVals}
    /\ nrange \in MetricRanges
    /\ nres = Pending /\ nres2 = Pending
    /\ IdleGrade /\ IdleEval /\ IdleBatch /\ IdlePure

SpecNorm == InitNorm /\ [][NextNorm]_vars

SameSide(v1, v2, ideal) ==
    \/ RLe(v1, ideal) /\ RLe(v2, ideal)
    \/ RLe(ideal, v1) /\ RLe(ideal, v2)

\* C8: inside [min, max], on one side of the ideal, the score does not grow
\* as |value - ideal| grows
C8_NormalizeMonotone ==
    ( /\ NormCalled
      /\ InRange(nvalue, nrange) /\ InRange(nvalue2, nrange)
      /\ SameSide(nvalue, nvalue2, EffectiveIdeal(nrange))
      /\ RLe(RAbs(RSub(nvalue, EffectiveIdeal(nrange))),
             RAbs(RSub(nvalue2, EffectiveIdeal(nrange)))) )
    => /\ ~nres.raised /\ ~nres2.raised
       /\ RLe(nres2.value, nres.value)

\* two in-range values on one side of the ideal, strictly ordered by distance,
\* with strictly ordered scores
C8_Witness ==
    /\ NormCalled
    /\ RLt(nrange[1], nrange[2])
    /\ InRange(nvalue, nrange) /\ InRange(nvalue2, nrange)
    /\ SameSide(nvalue, nvalue2, EffectiveIdeal(nrange))
    /\ RLt(RAbs(RSub(nvalue, EffectiveIdeal(nrange))),
           RAbs(RSub(nvalue2, EffectiveIdeal(nrange))))
    /\ RLt(nres2.value, nres.value)
    /\ RLt(RZero, nres2.value)

\* C9: with min = max the result is exactly 1.0 for every value, and no
\* division by zero is raised
C9_EqualBounds ==
    (NormCalled /\ REq(nrange[1], nrange[2])) =>
        /\ ~nres.raised /\ nres.value = ROne
        /\ ~nres2.raised /\ nres2.value = ROne

\* min = max with one value on the bound and one far from it
C9_Witness ==
    /\ NormCalled
    /\ REq(nrange[1], nrange[2])
    /\ REq(nvalue, nrange[1])
    /\ RLe(RInt(3), RAbs(RSub(nvalue2, nrange[1])))
    /\ nres.value = ROne /\ nres2.value = ROne

\* C23, as claimed: with min < max, a value outside [min, max] never scores
\* higher than the bound of the range nearest to it
C23_AsClaimed ==
    (NormCalled /\ RLt(nrange[1], nrange[2])) =>
        /\ (RLt(nvalue, nrange[1]) /\ REq(nvalue2, nrange[1]))
              => RLe(nres.value, nres2.value)
        /\ (RLt(nrange[2], nvalue) /\ REq(nvalue2, nrange[2]))
              => RLe(nres.value, nres2.value)

\* the range with its ideal set to the midpoint (min + max) / 2
WithMidpoint(range_values) ==
    <<range_values[1], range_values[2],
      RDiv(RAdd(range_values[1], range_values[2]), RInt(2))>>

\* C25: under a range whose ideal is unset, every value gets the score it
\* gets under the same range with the ideal set to the midpoint
C25_UnsetIdealIsMidpoint ==
    (NormCalled /\ nrange[3] = None) =>
        /\ nres = NormalizeScore(nvalue, WithMidpoint(nrange))
        /\ nres2 = NormalizeScore(nvalue2, WithMidpoint(nrange))

\* an unset ideal, one value on the midpoint and one inside the range away
\* from it
C25_Witness ==
    /\ NormCalled /\ nrange[3] = None
    /\ RLt(nrange[1], nrange[2])
    /\ InRange(nvalue, nrange) /\ InRange(nvalue2, nrange)
    /\ nres.value = ROne
    /\ RLt(nres2.value, ROne)
    /\ nres2 = NormalizeScore(nvalue2, WithMidpoint(nrange))

-----------------------------------------------------------------------------
(* SpecGrade: the grade bucket lines of evaluate_fluency applied to two     *)
(* composite scores in [0, 1]                                              *)

\* largest denominator of a drawn composite score
GradeDen == 20
GradeScores == UNION {{R(k, d) : k \in 0..d} : d \in 1..GradeDen}

InitGrade ==
    /\ gscore \in GradeScores /\ gscore2 \in GradeScores
    /\ gindex = -1 /\ ggrade = "" /\ gindex2 = -1
    /\ IdleNorm /\ IdleEval /\ IdleBatch /\ IdlePure

Grade ==
    /\ gindex = -1
    /\ gindex' = ScoreIndex(gscore)
    /\ ggrade' = ScoreAt(ScoreIndex(gscore))
    /\ gindex2' = ScoreIndex(gscore2)
    /\ UNCHANGED <<gscore, gscore2>>

NextGrade == Grade /\ UNCHANGED <<normVars, evalVars, batchVars, pureVars>>

SpecGrade == InitGrade /\ [][NextGrade]_vars

\* C10, as claimed: the bucket index is clamp(5 - round(s * 5), 0, 5), with
\* round() sending a tie either to the even neighbour or upward
C10_AsClaimed ==
    gindex # -1 =>
        /\ gindex \in {Clamp05(5 - PyRound(RMul(gscore, RInt(5)))),
                        Clamp05(5 - RoundHalfUp(RMul(gscore, RInt(5))))}
        /\ ggrade = Scores[gindex + 1]

\* C10, amended: the bucket index is clamp(int(5 - s * 5), 0, 5), int()
\* truncating: the index is 5 - ceil(s * 5), so A needs s > 0.8, B s > 0.6,
\* C s > 0.4, D s > 0.2, and the grade is the entry at that index of
\* A, B, C, D, F, F
C10_GradeBucket ==
    gindex # -1 =>
        /\ gindex \in 0..5
        /\ RLe(RMul(gscore, RInt(5)), RInt(5 - gindex))
        /\ RLt(RInt(5 - gindex - 1), RMul(gscore, RInt(5)))
        /\ ggrade = CASE RLt(R(8, 10), gscore) -> "A"
                      [] RLt(R(6, 10), gscore) /\ RLe(gscore, R(8, 10)) -> "B"
                      [] RLt(R(4, 10), gscore) /\ RLe(gscore, R(6, 10)) -> "C"
                      [] RLt(R(2, 10), gscore) /\ RLe(gscore, R(4, 10)) -> "D"
                      [] OTHER -> "F"

\* a composite where truncation and rounding part: 0.85 is graded A (index 0)
C10_Witness ==
    /\ gindex = 0 /\ ggrade = "A"
    /\ gscore = R(85, 100)

\* C11: of two composite scores, the higher one never gets the larger bucket
\* index (it is never graded further from A)
C11_GradeMonotone ==
    (gindex # -1 /\ RLt(gscore, gscore2)) => gindex2 <= gindex

\* two composites, the higher one in a strictly better bucket with another
\* letter
C11_Witness ==
    /\ gindex # -1
    /\ RLt(gscore, gscore2)
    /\ gindex2 < gindex
    /\ ScoreAt(gindex2) # ggrade

-----------------------------------------------------------------------------
(* SpecEval: evaluate_fluency applied to one recording and one transcript *)

InitEval ==
    /\ eaudio \in EvalAudios
    /\ etranscript \in EvalTranscripts
    /\ eout = Pending
    /\ IdleNorm /\ IdleGrade /\ IdleBatch /\ IdlePure

Evaluate ==
    /\ eout = Pending
    /\ eout' = EvaluateFluency(eaudio, etranscript)
    /\ UNCHANGED <<eaudio, etranscript>>

NextEval == Evaluate /\ UNCHANGED <<normVars, gradeVars, batchVars, pureVars>>

SpecEval == InitEval /\ [][NextEval]_vars

Evaluated == eout # Pending

\* overall_score "F", an error field, and every numeric metric 0
IsFailureResult(r) ==
    /\ r.overall_score = "F"
    /\ "error" \in DOMAIN r
    /\ r.wpm = RZero /\ r.pause_frequency = RZero
    /\ r.average_pause_duration = RZero /\ r.filler_word_count = RZero
    /\ r.pitch_variation = RZero /\ r.repetition_count = RZero
    /\ r.speech_rate_consistency = RZero

\* C2, as claimed: no exception reaches the caller, and a failed decode as
\* well as a failed feature extraction after a successful decode give the
\* failure result
C2_AsClaimed ==
    Evaluated =>
        /\ ~eout.raised
        /\ (~eaudio.decodes \/ eaudio.rms_fails) => IsFailureResult(eout.value)

\* C2, amended: no exception reaches the caller; a failed decode (and a
\* transcript that is not a string) gives the failure result; a feature
\* extraction that fails after a successful decode gives no failure result:
\* the one-frame zero placeholders go through the normal path, so the result
\* has no error field, its pause and pitch metrics are 0, and its wpm is that
\* of the transcript over the decoded duration
C2_NeverRaises ==
    Evaluated =>
        /\ ~eout.raised
        /\ (~eaudio.decodes \/ ~etranscript.is_str) => IsFailureResult(eout.value)
        /\ (eaudio.decodes /\ eaudio.rms_fails /\ etranscript.is_str) =>
              /\ "error" \notin DOMAIN eout.value
              /\ eout.value.pause_frequency = RZero
              /\ eout.value.average_pause_duration = RZero
              /\ eout.value.pitch_variation = RZero
              /\ eout.value.wpm =
                    RoundScore(R(Len(Split(etranscript.chars)) * 60 * eaudio.sr,
                                 IF eaudio.y_len = 0 THEN eaudio.sr ELSE eaudio.y_len))

\* a failed decode under a spoken transcript, answered with the failure result
C2_Witness ==
    /\ Evaluated
    /\ ~eaudio.decodes /\ etranscript.is_str /\ Len(etranscript.chars) > 0
    /\ ~eout.raised /\ IsFailureResult(eout.value)

\* a Vietnamese result of the normal path
VietnameseEvaluated ==
    /\ Evaluated /\ ~eout.raised
    /\ eout.value.language = "vi"
    /\ "error" \notin DOMAIN eout.value

\* the bucket index evaluate_fluency computes before the Vietnamese branch
BaseIndex(audio, chars) ==
    FluencyLocals(audio, chars, "vi", ExtractAudioFeatures(audio).value).score_index

LowAuthenticity(r) == RLt(r.human_likelihood_score, R(5, 10))
LowMatch(r) == RLt(r.audio_transcript_match, R(7, 10))

\* the grade one bucket below the base one (the index capped at 5) when a
\* check is low, the base grade otherwise
GradeAfterChecks(r, base) ==
    IF LowAuthenticity(r) \/ LowMatch(r)
    THEN Scores[(IF base + 1 > 5 THEN 5 ELSE base + 1) + 1]
    ELSE Scores[base + 1]

\* C12: for a Vietnamese submission an authenticity score below 0.5 moves the
\* grade one bucket down, and so does a match below 0.7, the index never
\* passing 5; with neither, the grade is the base grade
C12_VietnameseDemotion ==
    VietnameseEvaluated =>
        eout.value.overall_score =
            GradeAfterChecks(eout.value, BaseIndex(eaudio, etranscript.chars))

\* a Vietnamese result whose match alone is low, graded one letter below its
\* base grade
C12_Witness ==
    /\ VietnameseEvaluated
    /\ LowMatch(eout.value) /\ ~LowAuthenticity(eout.value)
    /\ BaseIndex(eaudio, etranscript.chars) < 4
    /\ eout.value.overall_score = Scores[BaseIndex(eaudio, etranscript.chars) + 2]

\* the bucket index evaluate_fluency computes on the normal path
NormalIndex(audio, chars) ==
    FluencyLocals(audio, chars, DetectLanguage(Str(chars)).value, ExtractAudioFeatures(audio).value).score_index

IndexValid(r, index) ==
    /\ index \in 0..5
    /\ \E k \in {index, index + 1} \cap 0..5 :
          r.overall_score = <<"A", "B", "C", "D", "F", "F">>[k + 1]

\* C13: every returned result carries one of the five letter grades, and on
\* the normal path the bucket index, before and after the Vietnamese
\* adjustment, lies in 0..5
C13_GradeValid ==
    (Evaluated /\ ~eout.raised) =>
        /\ eout.value.overall_score \in {"A", "B", "C", "D", "F"}
        /\ "error" \notin DOMAIN eout.value =>
              IndexValid(eout.value, NormalIndex(eaudio, etranscript.chars))

\* a Vietnamese result whose base bucket is 4 and which is demoted to bucket 5
C13_Witness ==
    /\ VietnameseEvaluated
    /\ NormalIndex(eaudio, etranscript.chars) = 4
    /\ LowAuthenticity(eout.value)
    /\ eout.value.overall_score = "F"

InUnitInterval(x) == RLe(RZero, x) /\ RLe(x, ROne)

\* C14: the two Vietnamese-only fields occur only in results whose language
\* is Vietnamese, both lie in [0,1] when present, and speech_rate_consistency
\* lies in [0,1] in every result
C14_FieldsAndRanges ==
    (Evaluated /\ ~eout.raised) =>
        /\ ("human_likelihood_score" \in DOMAIN eout.value
              \/ "audio_transcript_match" \in DOMAIN eout.value)
             => eout.value.language = "vi"
        /\ "human_likelihood_score" \in DOMAIN eout.value
             => InUnitInterval(eout.value.human_likelihood_score)
        /\ "audio_transcript_match" \in DOMAIN eout.value
             => InUnitInterval(eout.value.audio_transcript_match)
        /\ InUnitInterval(eout.value.speech_rate_consistency)

\* a Vietnamese result with both fields below 1 over a recording whose chunk
\* rates vary so much that the consistency is cut off at 0
C14_Witness ==
    /\ VietnameseEvaluated
    /\ eaudio.rate_cv = R(3, 2)
    /\ eout.value.speech_rate_consistency = RZero
    /\ RLt(eout.value.human_likelihood_score, ROne)
    /\ RLt(eout.value.audio_transcript_match, ROne)

\* the letter at a bucket index
BucketLetter(index) == <<"A", "B", "C", "D", "F", "F">>[index + 1]
NextBucket(index) == IF index + 1 > 5 THEN 5 ELSE index + 1

AtMostOneBucket(r, base) ==
    /\ r.overall_score \in {BucketLetter(base), BucketLetter(NextBucket(base))}
    /\ (LowAuthenticity(r) /\ LowMatch(r))
          => r.overall_score = BucketLetter(NextBucket(base))

\* C24: a Vietnamese result is graded at its base bucket or at the next one,
\* and at the next one, not the one after, when authenticity and match are
\* both low
C24_DemotedOnce ==
    VietnameseEvaluated =>
        AtMostOneBucket(eout.value, BaseIndex(eaudio, etranscript.chars))

\* both checks low on a base bucket from which two steps would give another
\* letter than one step
C24_Witness ==
    /\ VietnameseEvaluated
    /\ LowAuthenticity(eout.value) /\ LowMatch(eout.value)
    /\ BaseIndex(eaudio, etranscript.chars) <= 2
    /\ eout.value.overall_score = BucketLetter(BaseIndex(eaudio, etranscript.chars) + 1)

\* the fields of a result other than the grade and the two Vietnamese-only
\* scores
OtherFields(r) ==
    DOMAIN r \ {"overall_score", "human_likelihood_score", "audio_transcript_match"}

SameOtherFields(r, q) ==
    /\ OtherFields(r) = OtherFields(q)
    /\ \A f \in OtherFields(r) : r[f] = q[f]

FailedCheckResult(r, undisturbed, base) ==
    /\ r.human_likelihood_score = ROne
    /\ r.audio_transcript_match = ROne
    /\ r.overall_score = BucketLetter(base)
    /\ SameOtherFields(r, undisturbed)

\* C29: when the match check raises inside the Vietnamese branch, the result
\* is returned with both Vietnamese-only scores at 1.0 and the base grade,
\* and its other fields are those of the same evaluation without the failure
C29_CheckFailureDefaults ==
    (VietnameseEvaluated /\ eaudio.reload_fails) =>
        FailedCheckResult(eout.value,
                          EvaluateFluency([eaudio EXCEPT !.reload_fails = FALSE],
                                          etranscript).value,
                          BaseIndex(eaudio, etranscript.chars))

\* a failing match check under a transcript whose authenticity score, had the
\* failure not happened, is below 0.5 and would have demoted the grade
C29_Witness ==
    /\ VietnameseEvaluated /\ eaudio.reload_fails
    /\ RLt(DetectAiGeneratedText(etranscript.chars), R(5, 10))
    /\ BaseIndex(eaudio, etranscript.chars) <= 3
    /\ eout.value.human_likelihood_score = ROne
    /\ eout.value.overall_score = BucketLetter(BaseIndex(eaudio, etranscript.chars))

\* a Vietnamese result whose match check ran to its end
MatchChecked ==
    VietnameseEvaluated /\ ~eaudio.reload_fails

\* frames per chunk: the envelope split into max(sentences, 3) chunks
FramesPerChunk(energy, n_sentences) ==
    Len(energy) \div (IF n_sentences > 3 THEN n_sentences ELSE 3)

\* min(duration, expected) / max(duration, expected), 0.5 s expected per word
DurationRatio(duration, word_count) ==
    IF RLt(duration, R(word_count, 2)) THEN RDiv(duration, R(word_count, 2))
    ELSE RDiv(R(word_count, 2), duration)

\* 1.0 for a coefficient of variation in [0.4, 0.6], a linear ramp below
\* 0.4, a linear decay above 0.6 that reaches 0 at 1.0
EnergyRamp(cv) ==
    IF RLt(cv, R(4, 10)) THEN RDiv(cv, R(4, 10))
    ELSE IF RLe(cv, R(6, 10)) THEN ROne
    ELSE IF RLt(cv, ROne) THEN RDiv(RSub(ROne, cv), R(4, 10))
    ELSE RZero

\* found pauses over expected pauses (one between sentences, at least one)
PauseRatio(found, n_sentences) ==
    IF found >= (IF n_sentences > 2 THEN n_sentences - 1 ELSE 1) THEN ROne
    ELSE R(found, IF n_sentences > 2 THEN n_sentences - 1 ELSE 1)

Combined(duration_ratio, energy_match, silence_ratio) ==
    RAdd(RAdd(RMul(duration_ratio, R(4, 10)), RMul(energy_match, R(4, 10))),
         RMul(silence_ratio, R(2, 10)))

\* the envelope's chunk-energy variation, read only when the chunks have 5
\* frames or more
ChunkVariation(energy, frames_per_chunk) ==
    EnergyVariation(SegmentEnergies(energy, frames_per_chunk))

PausesFound(feat) ==
    Len(DetectSilence(feat.energy, feat.sr, HOP_LENGTH, SILENCE_THRESHOLD_FACTOR))

MatchAsClaimed(feat, word_count, n_sentences, frames_per_chunk) ==
    Combined(DurationRatio(feat.duration, word_count),
             IF frames_per_chunk < 5 THEN R(8, 10)
             ELSE EnergyRamp(ChunkVariation(feat.energy, frames_per_chunk)),
             PauseRatio(PausesFound(feat), n_sentences))

MatchAmended(feat, word_count, n_sentences, frames_per_chunk) ==
    IF frames_per_chunk < 5 THEN R(8, 10)
    ELSE Combined(DurationRatio(feat.duration, word_count),
                  EnergyRamp(ChunkVariation(feat.energy, frames_per_chunk)),
                  PauseRatio(PausesFound(feat), n_sentences))

FeaturesOf(audio) == ExtractAudioFeatures(audio).value
SentenceCount(chars) == Len(Sentences(chars))

\* C28, as claimed: the match score is duration_ratio * 0.4 + energy_match *
\* 0.4 + silence_ratio * 0.2 in [0,1], with 0.8 taken for energy_match alone
\* when a chunk has fewer than 5 frames
C28_AsClaimed ==
    MatchChecked =>
        /\ InUnitInterval(eout.value.audio_transcript_match)
        /\ REq(eout.value.audio_transcript_match,
               MatchAsClaimed(FeaturesOf(eaudio), Len(Split(etranscript.chars)),
                              SentenceCount(etranscript.chars),
                              FramesPerChunk(FeaturesOf(eaudio).energy,
                                             SentenceCount(etranscript.chars))))

\* C28, amended: with 5 or more frames per chunk the match score is
\* duration_ratio * 0.4 + energy_match * 0.4 + silence_ratio * 0.2 in [0,1];
\* with fewer it is 0.8 and no check enters it
C28_MatchScore ==
    MatchChecked =>
        /\ InUnitInterval(eout.value.audio_transcript_match)
        /\ REq(eout.value.audio_transcript_match,
               MatchAmended(FeaturesOf(eaudio), Len(Split(etranscript.chars)),
                            SentenceCount(etranscript.chars),
                            FramesPerChunk(FeaturesOf(eaudio).energy,
                                           SentenceCount(etranscript.chars))))

\* a recording of 5 frames per chunk whose chunk energies vary beyond 0.6, so
\* that the energy check is on its decaying side
C28_Witness ==
    /\ MatchChecked
    /\ FramesPerChunk(FeaturesOf(eaudio).energy, SentenceCount(etranscript.chars)) >= 5
    /\ RLt(R(6, 10), ChunkVariation(FeaturesOf(eaudio).energy, 5))
    /\ RLt(RZero, eout.value.audio_transcript_match)
    /\ RLt(eout.value.audio_transcript_match, ROne)

-----------------------------------------------------------------------------
(* SpecSilence: detect_silence applied to a drawn energy envelope.  The     *)
(* sample rates make one frame of HOP_LENGTH samples last 1/2, 1/4 or 1/8 s. *)

\* most frames of a drawn envelope
MaxFrames == 4

SilenceLevels == {0, 1, 3}
SilenceRates == {512, 1024, 2048}
ThresholdFactors == {SILENCE_THRESHOLD_FACTOR, R(2, 1)}
Envelopes == UNION {[1..n -> SilenceLevels] : n \in 0..MaxFrames}

InitSilence ==
    /\ senergy \in Envelopes
    /\ ssr \in SilenceRates
    /\ shop = HOP_LENGTH
    /\ sfactor \in ThresholdFactors
    /\ sout = Pending
    /\ IdleNorm /\ IdleGrade /\ IdleEval /\ IdleBatch /\ IdleText /\ IdleFeedback /\ IdleWpm

Segment ==
    /\ sout = Pending
    /\ sout' = Ok(DetectSilence(senergy, ssr, shop, sfactor))
    /\ UNCHANGED <<senergy, ssr, shop, sfactor>>

NextSilence ==
    Segment /\ UNCHANGED <<normVars, gradeVars, evalVars, batchVars, textVars, feedbackVars, wpmVars>>

SpecSilence == InitSilence /\ [][NextSilence]_vars

Segmented == sout # Pending

\* a constant envelope of at least one frame, every frame below
\* mean(energy) * threshold_factor
ConstantBelowThreshold ==
    /\ Len(senergy) >= 1
    /\ \A k \in 1..Len(senergy) : senergy[k] = senergy[1]
    /\ RLt(RInt(senergy[1]), RMul(RInt(senergy[1]), sfactor))

\* the time the envelope spans: frames * hop_length / sr
TotalDuration == R(Len(senergy) * shop, ssr)

OneInterval(segments, start, end) ==
    /\ Len(segments) = 1
    /\ REq(segments[1][1], start) /\ REq(segments[1][2], end)

\* C15, as claimed: a constant envelope below the threshold gives the single
\* interval (0, total_duration) when total_duration >= 0.5 s and no interval
\* otherwise
C15_AsClaimed ==
    (Segmented /\ ConstantBelowThreshold) =>
        IF RLe(MIN_SILENCE_DURATION, TotalDuration)
        THEN OneInterval(sout.value, RZero, TotalDuration)
        ELSE sout.value = <<>>

\* C15, amended: a constant envelope of at least two frames below the
\* threshold gives the single interval (0, frames * hop_length / sr) when that
\* duration is at least 0.5 s and no interval when it is shorter; an envelope
\* of fewer than two frames gives no interval whatever its duration
C15_ConstantSilence ==
    /\ (Segmented /\ ConstantBelowThreshold /\ Len(senergy) >= 2) =>
           IF RLe(MIN_SILENCE_DURATION, TotalDuration)
           THEN OneInterval(sout.value, RZero, TotalDuration)
           ELSE sout.value = <<>>
    /\ (Segmented /\ Len(senergy) < 2) => sout.value = <<>>

\* a constant envelope of several frames below the threshold, lasting half a
\* second or more, returned as one interval
C15_Witness ==
    /\ Segmented /\ ConstantBelowThreshold /\ Len(senergy) >= 2
    /\ RLe(MIN_SILENCE_DURATION, TotalDuration)
    /\ Len(sout.value) = 1

\* C16: every returned interval has start < end and lasts at least 0.5 s, and
\* each interval ends strictly before the next one starts
C16_IntervalsWellFormed ==
    Segmented =>
        /\ \A k \in 1..Len(sout.value) :
              /\ RLt(sout.value[k][1], sout.value[k][2])
              /\ RLe(MIN_SILENCE_DURATION, RSub(sout.value[k][2], sout.value[k][1]))
        /\ \A k \in 1..(Len(sout.value) - 1) :
              RLt(sout.value[k][2], sout.value[k + 1][1])

\* an envelope with two separate pauses, one of them still open at the end
C16_Witness ==
    /\ Segmented
    /\ Len(sout.value) = 2
    /\ REq(sout.value[2][2], TotalDuration)

\* frame k of the envelope has energy strictly below half the mean
BelowHalfMean(energy, k) == 2 * Len(energy) * energy[k] < SumSeq(energy)

\* frames a..b form a maximal run of frames below half the mean
MaximalRun(energy, a, b) ==
    /\ a <= b
    /\ \A k \in a..b : BelowHalfMean(energy, k)
    /\ a = 1 \/ ~BelowHalfMean(energy, a - 1)
    /\ b = Len(energy) \/ ~BelowHalfMean(energy, b + 1)

\* the reference set: one interval per maximal run lasting 0.5 s or more
ReferenceIntervals(energy, sr, hop_length) ==
    {<<R((run[1] - 1) * hop_length, sr), R(run[2] * hop_length, sr)>> :
        run \in {ab \in (1..Len(energy)) \X (1..Len(energy)) :
                    /\ MaximalRun(energy, ab[1], ab[2])
                    /\ 2 * (ab[2] - ab[1] + 1) * hop_length >= sr}}

\* C22: under the default factor the scan returns exactly the reference set,
\* each interval once: one interval for every maximal run of frames below
\* mean * 0.5 that lasts at least 0.5 s, a run open at the last frame
\* included, and none for a shorter run
C22_ScanMatchesReference ==
    (Segmented /\ sfactor = SILENCE_THRESHOLD_FACTOR) =>
        /\ {sout.value[k] : k \in 1..Len(sout.value)}
              = ReferenceIntervals(senergy, ssr, shop)
        /\ Len(sout.value) = Cardinality(ReferenceIntervals(senergy, ssr, shop))

\* an envelope with a run too short to count and a longer run open at the
\* last frame, returned as one interval
C22_Witness ==
    /\ Segmented /\ sfactor = SILENCE_THRESHOLD_FACTOR
    /\ Len(sout.value) = 1
    /\ REq(sout.value[1][2], TotalDuration)
    /\ \E a \in 1..Len(senergy) :
          MaximalRun(senergy, a, a) /\ 2 * shop < ssr

\* C30: under the default factor an envelope whose frames all have the same
\* energy, zero included, yields no interval whatever its duration, and an
\* envelope of fewer than two frames yields none either
C30_ConstantNeverSilent ==
    Segmented =>
        /\ (sfactor = SILENCE_THRESHOLD_FACTOR
              /\ \A k \in 1..Len(senergy) : senergy[k] = senergy[1])
             => sout.value = <<>>
        /\ Len(senergy) < 2 => sout.value = <<>>

\* an all-zero envelope of several frames lasting a second or more, without
\* any interval
C30_Witness ==
    /\ Segmented /\ sfactor = SILENCE_THRESHOLD_FACTOR
    /\ Len(senergy) >= 2
    /\ \A k \in 1..Len(senergy) : senergy[k] = 0
    /\ RLe(ROne, TotalDuration)
    /\ sout.value = <<>>

-----------------------------------------------------------------------------
(* SpecText: detect_language, detect_repetitions, count_filler_words and    *)
(* detect_ai_generated_text applied to a drawn text                        *)

\* most words of a drawn text
MaxTokens == 4

\* a stop word, a word in lower and in mixed case, a one-letter word, and the
\* upper-case A with a grave accent
TextWords ==
    {<<"t", "h", "e">>, <<"c", "a", "t">>, <<"C", "a", "t">>, <<"x">>, <<"A_grave">>}

\* the example "the cat cat cat cat sat"; two repeated words among a repeated
\* stop word and a repeated letter; a Vietnamese stop word four times
PickedTexts ==
    {Join(<<<<"t", "h", "e">>, <<"c", "a", "t">>, <<"c", "a", "t">>, <<"c", "a", "t">>,
            <<"c", "a", "t">>, <<"s", "a", "t">>>>),
     Join(<<<<"s", "a", "t">>, <<"c", "a", "t">>, <<"x">>, <<"t", "h", "e">>,
            <<"s", "a", "t">>, <<"C", "a", "t">>, <<"x">>, <<"t", "h", "e">>,
            <<"s", "a", "t">>, <<"c", "a", "t">>, <<"x">>, <<"t", "h", "e">>,
            <<"s", "a", "t">>, <<"c", "a", "t">>, <<"x">>, <<"t", "h", "e">>,
            <<"s", "a", "t">>, <<"c", "a", "t">>>>),
     Join(<<<<"v", "a_grave">>, <<"v", "a_grave">>, <<"v", "a_grave">>,
            <<"v", "a_grave">>>>)}

\* "Um I mean so"; "Um, like"; "Tức là À"; "vậy đó"
FillerTexts ==
    {Join(<<<<"U", "m">>, <<"I">>, <<"m", "e", "a", "n">>, <<"s", "o">>>>),
     Join(<<<<"U", "m", ",">>, <<"l", "i", "k", "e">>>>),
     Join(<<<<"T", "u_horn_acute", "c">>, <<"l", "a_grave">>, <<"A_grave">>>>),
     Join(<<<<"v", "a_dot_circ", "y">>, <<"d_stroke", "o_acute">>>>)}

\* ten words in one sentence; sentences of 5 and 7 different words; the same
\* with "Um", "thus" and "um" among them; four commas between full stops
\* before ten words; "a b c" three times and once more; a Vietnamese text
\* with "à" and "tuy nhiên"
HumanTexts ==
    {Join(<<<<"a">>, <<"b">>, <<"c">>, <<"d">>, <<"e">>, <<"f">>, <<"g">>, <<"h">>,
            <<"i">>, <<"j">>>>),
     Join(<<<<"a">>, <<"b">>, <<"c">>, <<"d">>, <<"e", ".">>, <<"f">>, <<"g">>,
            <<"h">>, <<"i">>, <<"j">>, <<"k">>, <<"l", ".">>>>),
     Join(<<<<"U", "m">>, <<"t", "h", "u", "s">>, <<"c">>, <<"d">>, <<"e", ".">>,
            <<"u", "m">>, <<"g">>, <<"h">>, <<"i">>, <<"j">>, <<"k">>, <<"l", ".">>>>),
     Join(<<<<",", ".", ",", ".", ",", ".", ",", ".", "a">>, <<"b">>, <<"c">>, <<"d">>,
            <<"e">>, <<"f">>, <<"g">>, <<"h">>, <<"i">>, <<"j">>>>),
     Join(<<<<"a">>, <<"b">>, <<"c">>, <<"a">>, <<"b">>, <<"c">>, <<"a">>, <<"b">>,
            <<"c", ".">>, <<"a">>, <<"b">>, <<"c">>>>),
     Join(<<<<"a_grave">>, <<"t", "u", "y">>, <<"n", "h", "i", "e_circ", "n">>, <<"c">>,
            <<"d", ".">>, <<"f">>, <<"g">>, <<"h">>, <<"i">>, <<"j">>, <<"k">>,
            <<"l", ".">>>>)}

Texts ==
    {Str(Join(ws)) : ws \in UNION {[1..n -> TextWords] : n \in 0..MaxTokens}}
        \cup {Str(t) : t \in PickedTexts \cup FillerTexts \cup HumanTexts}

InitText ==
    /\ ttext \in Texts
    /\ tlanguage = Pending
    /\ trepetitions = Pending
    /\ tfillers = Pending
    /\ thuman = Pending
    /\ IdleNorm /\ IdleGrade /\ IdleEval /\ IdleBatch /\ IdleSilence /\ IdleFeedback /\ IdleWpm

Classify ==
    /\ tlanguage = Pending
    /\ tlanguage' = DetectLanguage(ttext)
    /\ UNCHANGED <<ttext, trepetitions, tfillers, thuman>>

CountRepetitions ==
    /\ trepetitions = Pending
    /\ trepetitions' = Ok(DetectRepetitions(ttext.chars))
    /\ UNCHANGED <<ttext, tlanguage, tfillers, thuman>>

\* count_filler_words(transcript, language), with either language code
CountFillers ==
    /\ tfillers = Pending
    /\ \E language \in {"en", "vi"} :
          tfillers' = Ok([language |-> language,
                          count |-> CountFillerWords(ttext.chars, language)])
    /\ UNCHANGED <<ttext, tlanguage, trepetitions, thuman>>

\* detect_ai_generated_text(transcript)
Authenticate ==
    /\ thuman = Pending
    /\ thuman' = Ok(DetectAiGeneratedText(ttext.chars))
    /\ UNCHANGED <<ttext, tlanguage, trepetitions, tfillers>>

NextText ==
    \/ CountFillers /\ UNCHANGED <<normVars, gradeVars, evalVars, batchVars, silenceVars, feedbackVars, wpmVars>>
    \/ Authenticate /\ UNCHANGED <<normVars, gradeVars, evalVars, batchVars, silenceVars, feedbackVars, wpmVars>>
    \/ Classify /\ UNCHANGED <<normVars, gradeVars, evalVars, batchVars, silenceVars, feedbackVars, wpmVars>>
    \/ CountRepetitions /\ UNCHANGED <<normVars, gradeVars, evalVars, batchVars, silenceVars, feedbackVars, wpmVars>>

SpecText == InitText /\ [][NextText]_vars

Classified == tlanguage # Pending

\* some character of the text, once lower-cased, is in the Vietnamese set
LowerCasedHasVietnamese ==
    \E k \in 1..Len(ttext.chars) : LowerChar(ttext.chars[k]) \in VietnameseChars

\* C17: the language is Vietnamese exactly when the lower-cased text holds a
\* character of the Vietnamese set, and English otherwise, the empty text
\* included
C17_LanguageByDiacritic ==
    Classified =>
        /\ ~tlanguage.raised
        /\ tlanguage.value = (IF LowerCasedHasVietnamese THEN "vi" ELSE "en")
        /\ ttext.chars = <<>> => tlanguage.value = "en"

\* a text whose only Vietnamese character is in upper case, classified as
\* Vietnamese
C17_Witness ==
    /\ Classified
    /\ tlanguage.value = "vi"
    /\ \A k \in 1..Len(ttext.chars) : ttext.chars[k] \notin VietnameseChars

Counted == trepetitions # Pending

Listed(w, listed) == \E k \in 1..Len(listed) : listed[k] = w
Occurrences(words, w) == Cardinality({k \in 1..Len(words) : words[k] = w})
TokenSet(words) == {words[k] : k \in 1..Len(words)}

\* the tokens of the drawn text
TextTokens == FindWords(Lower(ttext.chars))

RepetitionDetection(words, count, listed) ==
    /\ \A w \in TokenSet(words) :
          (w \notin CommonWords /\ Len(w) > 1 /\ Occurrences(words, w) >= 4)
             => (Listed(w, listed) /\ count >= 4)
    /\ (\A w \in TokenSet(words) : Occurrences(words, w) <= 3)
          => (count = 0 /\ listed = <<>>)
    /\ \A w \in CommonWords \cup {t \in TokenSet(words) : Len(t) = 1} :
          ~Listed(w, listed)

\* C18: a token that is no stop word, has more than one character and occurs
\* at least 4 times is listed and the count is then at least 4; when no token
\* occurs more than 3 times the count is 0 and the list empty; no stop word
\* and no one-character token is ever listed
C18_RepetitionDetection ==
    Counted =>
        RepetitionDetection(TextTokens, trepetitions.value[1], trepetitions.value[2])

\* a text in which a stop word and a one-letter word occur four times next to
\* two listed words
C18_Witness ==
    /\ Counted
    /\ Len(trepetitions.value[2]) = 2
    /\ \E w \in CommonWords : Occurrences(TextTokens, w) >= 4
    /\ \E w \in TokenSet(TextTokens) : Len(w) = 1 /\ Occurrences(TextTokens, w) >= 4

RECURSIVE SumOver(_, _)
SumOver(f, S) ==
    IF S = {} THEN 0
    ELSE LET x == CHOOSE y \in S : TRUE IN f[x] + SumOver(f, S \ {x})

\* the tokens detect_repetitions counts as repetitive
Qualifying(words) ==
    {w \in TokenSet(words) :
        Occurrences(words, w) > 3 /\ w \notin CommonWords /\ Len(w) > 1}

ExcessOf(words, qualifying) ==
    SumOver([w \in qualifying |-> Occurrences(words, w) - 3], qualifying)
TotalOf(words, qualifying) ==
    SumOver([w \in qualifying |-> Occurrences(words, w)], qualifying)

\* C19, as claimed: the count is the sum of the occurrences beyond the third
\* of the qualifying tokens
C19_AsClaimed ==
    Counted => trepetitions.value[1] = ExcessOf(TextTokens, Qualifying(TextTokens))

\* C19, amended: the count is the sum of the total occurrences of the
\* qualifying tokens
C19_CountIsTotal ==
    Counted => trepetitions.value[1] = TotalOf(TextTokens, Qualifying(TextTokens))

\* "the cat cat cat cat sat": one qualifying token, four occurrences, count 4
C19_Witness ==
    /\ Counted
    /\ Len(TextTokens) = 6
    /\ Cardinality(Qualifying(TextTokens)) = 1
    /\ \E w \in Qualifying(TextTokens) : Occurrences(TextTokens, w) = 4
    /\ trepetitions.value[1] = 4

FillersCounted == tfillers # Pending

\* the lexicon entries without a space
Unspaced(lexicon) == {w \in lexicon : \A k \in 1..Len(w) : w[k] # " "}

\* the occurrences among the tokens of the entries of a lexicon
OccurrencesOfAll(tokens, lexicon) ==
    SumOver([w \in lexicon |-> Occurrences(tokens, w)], lexicon)

FillerCount(tokens, lexicon, count) ==
    /\ count = OccurrencesOfAll(tokens, lexicon)
    /\ count <= Len(tokens)
    /\ count = OccurrencesOfAll(tokens, Unspaced(lexicon))

\* C26: the filler count is the number of whitespace-separated tokens of the
\* lower-cased transcript that are entries of the language's lexicon; it
\* never exceeds the token count, and an entry that contains a space
\* contributes nothing to it
C26_FillerCount ==
    FillersCounted =>
        FillerCount(Split(Lower(ttext.chars)),
                    GetFillerWordsForLanguage(tfillers.value.language),
                    tfillers.value.count)

\* "Tức là À" counted for Vietnamese: the spaced entry "tức là" is in the
\* text, and the count is 2, for "là" and for the lower-cased "À"
C26_Witness ==
    /\ FillersCounted
    /\ tfillers.value.language = "vi"
    /\ \E w \in FILLER_WORDS_VI \ Unspaced(FILLER_WORDS_VI) :
          Split(Lower(ttext.chars)) = Split(w) \o <<<<"a_grave">>>>
    /\ \E k \in 1..Len(ttext.chars) : ttext.chars[k] \in UpperCase
    /\ tfillers.value.count = 2

Authenticated == thuman # Pending

\* 0.30 diversity + 0.20 sentence-length variation + 0.20 (1 - repetition)
\* + 0.15 (1 - formality) + 0.15 disfluency
WeightedSum(diversity, variation, repetition, formality, disfluency) ==
    RSum(<<RMul(R(30, 100), diversity),
           RMul(R(20, 100), variation),
           RMul(R(20, 100), RSub(ROne, repetition)),
           RMul(R(15, 100), RSub(ROne, formality)),
           RMul(R(15, 100), disfluency)>>)

ClampUnit(x) == IF RLt(x, RZero) THEN RZero ELSE IF RLt(ROne, x) THEN ROne ELSE x

WeightedSumOf(words, sentences, language) ==
    WeightedSum(LexicalDiversity(words),
                SentLengthVariation(SentLengths(sentences)),
                RepetitionScore(ThreeGrams(words)),
                FormalityScore(words, language),
                DisfluencyScore(words, language))

Likelihood(words, sentences, language) ==
    IF Len(words) < 10 \/ Len(sentences) < 2 THEN ROne
    ELSE ClampUnit(WeightedSumOf(words, sentences, language))

\* C27: the human-likelihood score is exactly 1.0 for a transcript with fewer
\* than 10 word tokens or fewer than 2 non-empty sentences, and otherwise the
\* weighted sum 0.30 diversity + 0.20 variation + 0.20 (1 - repetition) +
\* 0.15 (1 - formality) + 0.15 disfluency clamped into [0,1]
C27_HumanLikelihood ==
    Authenticated =>
        /\ InUnitInterval(thuman.value)
        /\ REq(thuman.value,
               Likelihood(FindWords(Lower(ttext.chars)), Sentences(ttext.chars),
                          DetectLanguage(ttext).value))

\* a text of 12 words in two sentences with a formal marker and a
\* disfluency, scored strictly inside (0, 1)
C27_Witness ==
    /\ Authenticated
    /\ Len(FindWords(Lower(ttext.chars))) >= 10
    /\ Len(Sentences(ttext.chars)) >= 2
    /\ RLt(RZero, FormalityScore(FindWords(Lower(ttext.chars)), "en"))
    /\ RLt(RZero, DisfluencyScore(FindWords(Lower(ttext.chars)), "en"))
    /\ RLt(RZero, thuman.value) /\ RLt(thuman.value, ROne)

-----------------------------------------------------------------------------
(* SpecFeedback: get_fluency_feedback applied to a drawn result dictionary. *)
(* The values lie on both sides of every threshold of either language; the  *)
(* two Vietnamese-only fields are absent or both present, under either      *)
(* language, so that the language test of the function has something to     *)
(* decide.                                                                   *)

FeedbackMetrics ==
    [language : {"en", "vi"},
     wpm : {RInt(60), RInt(150), RInt(210), RInt(250)},
     pause_frequency : {RInt(40), RInt(42), RInt(50)},
     average_pause_duration : {R(15, 10), R(16, 10), RInt(2)},
     filler_word_count : {RZero, RInt(2)},
     repetition_count : {RInt(5), RInt(6)},
     speech_rate_consistency : {R(5, 10), R(6, 10)}]

VietnameseFields ==
    [human_likelihood_score : {R(6, 10), R(7, 10)},
     audio_transcript_match : {R(6, 10), R(7, 10)}]

FeedbackInputs ==
    FeedbackMetrics \cup {m @@ v : m \in FeedbackMetrics, v \in VietnameseFields}

InitFeedback ==
    /\ fresult \in FeedbackInputs
    /\ ffeedback = Pending
    /\ IdleNorm /\ IdleGrade /\ IdleEval /\ IdleBatch /\ IdleSilence /\ IdleText /\ IdleWpm

Advise ==
    /\ ffeedback = Pending
    /\ ffeedback' = Ok(GetFluencyFeedback(fresult))
    /\ UNCHANGED fresult

NextFeedback ==
    Advise /\ UNCHANGED <<normVars, gradeVars, evalVars, batchVars, silenceVars, textVars, wpmVars>>

SpecFeedback == InitFeedback /\ [][NextFeedback]_vars

Advised == ffeedback # Pending

\* the place of a message in the fixed order: rate, pause frequency, pause
\* duration, fillers, repetitions, consistency, authenticity, match
RuleSlot(rule) ==
    CASE rule = "rate_slow" -> 1 [] rule = "rate_fast" -> 1
      [] rule = "pause_frequency" -> 2 [] rule = "pause_duration" -> 3
      [] rule = "fillers" -> 4 [] rule = "repetitions" -> 5
      [] rule = "consistency" -> 6 [] rule = "authenticity" -> 7
      [] rule = "match" -> 8

Fires(rule, feedback) == \E k \in 1..Len(feedback) : feedback[k] = rule

\* the upper and lower limits the messages compare with
WpmLimits(language) == IF language = "vi" THEN <<70, 200>> ELSE <<80, 220>>
PauseFrequencyLimit(language) == IF language = "vi" THEN RInt(45) ELSE RInt(40)
PauseDurationLimit(language) == IF language = "vi" THEN R(17, 10) ELSE R(15, 10)

EachRuleOnItsOwn(fr, feedback) ==
    /\ Fires("rate_slow", feedback) <=> RLt(fr.wpm, RInt(WpmLimits(fr.language)[1]))
    /\ Fires("rate_fast", feedback) <=> RLt(RInt(WpmLimits(fr.language)[2]), fr.wpm)
    /\ Fires("pause_frequency", feedback)
          <=> RLt(PauseFrequencyLimit(fr.language), fr.pause_frequency)
    /\ Fires("pause_duration", feedback)
          <=> RLt(PauseDurationLimit(fr.language), fr.average_pause_duration)
    /\ Fires("fillers", feedback) <=> RLt(RZero, fr.filler_word_count)
    /\ Fires("repetitions", feedback) <=> RLt(RInt(5), fr.repetition_count)
    /\ Fires("consistency", feedback) <=> RLt(fr.speech_rate_consistency, R(6, 10))
    /\ Fires("authenticity", feedback)
          <=> /\ fr.language = "vi"
              /\ "human_likelihood_score" \in DOMAIN fr
              /\ RLt(fr.human_likelihood_score, R(7, 10))
    /\ Fires("match", feedback)
          <=> /\ fr.language = "vi"
              /\ "audio_transcript_match" \in DOMAIN fr
              /\ RLt(fr.audio_transcript_match, R(7, 10))

\* C20: the messages follow the fixed order with at most one message per
\* place (so never both rate messages), each message is present exactly when
\* its own condition holds, and the authenticity and match messages occur
\* only in Vietnamese results
C20_FeedbackOrder ==
    Advised =>
        /\ \A k \in 1..(Len(ffeedback.value) - 1) :
              RuleSlot(ffeedback.value[k]) < RuleSlot(ffeedback.value[k + 1])
        /\ EachRuleOnItsOwn(fresult, ffeedback.value)
        /\ (Fires("authenticity", ffeedback.value) \/ Fires("match", ffeedback.value))
              => fresult.language = "vi"

\* a Vietnamese result for which every place of the order has its message
C20_Witness ==
    /\ Advised
    /\ Len(ffeedback.value) = 8
    /\ ffeedback.value[1] = "rate_fast"
    /\ ffeedback.value[8] = "match"

-----------------------------------------------------------------------------
(* SpecWpm: calculate_wpm applied to a drawn word count and duration, then  *)
(* normalize_score applied to the rate under the English wpm range.         *)

\* word counts are drawn in steps of 25 words, durations in steps of 15 s
MaxWordSteps == 8
MaxDurationSteps == 6

InitWpm ==
    /\ wwords \in {25 * k : k \in 0..MaxWordSteps}
    /\ wduration \in {RInt(15 * k) : k \in 0..MaxDurationSteps}
    /\ wwpm = Pending /\ wscore = Pending
    /\ IdleNorm /\ IdleGrade /\ IdleEval /\ IdleBatch
    /\ IdleSilence /\ IdleText /\ IdleFeedback

Rate ==
    /\ wwpm = Pending
    /\ wwpm' = Ok(CalculateWpm(wwords, wduration))
    /\ UNCHANGED <<wwords, wduration, wscore>>

NormalizeRate ==
    /\ wwpm # Pending /\ wscore = Pending
    /\ wscore' = NormalizeScore(wwpm.value, WPM_RANGE_EN)
    /\ UNCHANGED <<wwords, wduration, wwpm>>

NextWpm ==
    \/ Rate /\ UNCHANGED <<normVars, gradeVars, evalVars, batchVars, silenceVars, textVars, feedbackVars>>
    \/ NormalizeRate /\ UNCHANGED <<normVars, gradeVars, evalVars, batchVars, silenceVars, textVars, feedbackVars>>

SpecWpm == InitWpm /\ [][NextWpm]_vars

\* C21: the rate is words * 60 / duration for a positive duration and 0
\* otherwise; 150 words over 60 s give 150, and a rate equal to the English
\* ideal of 150 normalises to exactly 1
C21_WpmAndIdeal ==
    /\ wwpm # Pending =>
          /\ RLt(RZero, wduration) =>
                REq(RMul(wwpm.value, wduration), RInt(wwords * 60))
          /\ RLe(wduration, RZero) => wwpm.value = RZero
          /\ (wwords = 150 /\ wduration = RInt(60)) => wwpm.value = RInt(150)
    /\ wscore # Pending =>
          /\ ~wscore.raised
          /\ REq(wwpm.value, RInt(150)) => wscore.value = ROne

\* 150 words over 60 s: a rate of 150 and a normalised score of 1
C21_Witness ==
    /\ wwords = 150 /\ wduration = RInt(60)
    /\ wwpm # Pending /\ wwpm.value = RInt(150)
    /\ wscore # Pending /\ wscore.value = ROne

-----------------------------------------------------------------------------
(* Spec: the batch endpoint score() of app.py.  A request body is           *)
(* [has_submissions, is_list, items]; an entry of items is                   *)
(* [is_dict, has_index, index, answer, b64_ok, audio]: is_dict is FALSE for  *)
(* a JSON value that is not an object, b64_ok says whether base64.b64decode  *)
(* accepts recordProof, audio is what the decoded bytes hold.                *)

\* most entries of a drawn batch
MaxBatch == 2

\* a JSON string, number or null in the list: it has no get method
NotAnObject ==
    [is_dict |-> FALSE, has_index |-> FALSE, index |-> 0, answer |-> NotAString,
     b64_ok |-> FALSE, audio |-> Undecodable]

Entry(has_index, answer, b64_ok, audio) ==
    [is_dict |-> TRUE, has_index |-> has_index,
     index |-> IF has_index THEN 7 ELSE 0,
     answer |-> answer, b64_ok |-> b64_ok, audio |-> audio]

\* "cat Um", the Vietnamese word, and an answer that is not a string
BatchAnswers ==
    {Str(Join(<<<<"c", "a", "t">>, <<"U", "m">>>>)),
     Str(<<"c", "h", "a_grave", "o">>),
     NotAString}

\* recordProof: not base64; base64 of bytes that are no audio; a 1.5 s
\* recording with a one-second pause; a recording whose envelope cannot be
\* computed
BatchProofs ==
    {[b64_ok |-> FALSE, audio |-> Undecodable],
     [b64_ok |-> TRUE, audio |-> Undecodable],
     [b64_ok |-> TRUE,
      audio |-> Recording(3, <<3, 0, 0, 3>>, FALSE,
                          [voiced |-> 5, f0_std |-> 130, rate_cv |-> R(1, 4)])],
     [b64_ok |-> TRUE,
      audio |-> Recording(3, <<0, 0, 0, 0>>, TRUE,
                          [voiced |-> 0, f0_std |-> 0, rate_cv |-> None])]}

EntryShapes ==
    {NotAnObject}
    \cup {Entry(h, a, p.b64_ok, p.audio) :
            h \in BOOLEAN, a \in BatchAnswers, p \in BatchProofs}

Requests ==
    {[has_submissions |-> FALSE, is_list |-> FALSE, items |-> <<>>],
     [has_submissions |-> TRUE, is_list |-> FALSE, items |-> <<>>]}
    \cup {[has_submissions |-> TRUE, is_list |-> TRUE, items |-> b] :
            b \in UNION {[1..n -> EntryShapes] : n \in 0..MaxBatch}}

\* calculate_overall_grade(all_fluency_scores): the aggregation rule is left
\* open, so the grade is kept as a term over the list it is handed
CalculateOverallGrade(scores) == [grade_of |-> scores]

CommentsOf(rs) == [k \in 1..Len(rs) |-> rs[k].comment]

\* generate_combined_feedback(results): the non-empty comments, in order
GenerateCombinedFeedback(rs) == SelectSeq(CommentsOf(rs), LAMBDA c : c # <<>>)

\* what one iteration of the loop comes to: an entry appended (with the
\* percentages appended beside it), a response returned from inside the loop,
\* an exception on its way to the handler, or one leaving the view function
Appended(entry, scores, fr) ==
    [kind |-> "appended", entry |-> entry, scores |-> scores, fluency |-> fr]
Returned(resp) == [kind |-> "returned", response |-> resp, fluency |-> Pending]
Raised(exc, fr) == [kind |-> "raised", exc |-> exc, fluency |-> fr]
Escaped(exc) ==
    [kind |-> "returned", fluency |-> Pending,
     response |-> [status |-> 500, error |-> <<"Internal Server Error", exc>>]]

\* index = submission.get("index", i + 1), i counted from 0
IndexOf(submission, pos) ==
    IF submission.has_index THEN submission.index ELSE pos + 1

\* the 400 returned from inside the loop when b64decode raises
InvalidAudioResponse(index) ==
    [status |-> 400, error |-> <<"Invalid audio data for submission", index>>]

\* all_fluency_scores.append(fluency_results["percentage"]) and the entry
\* appended to results; the subscript raises KeyError when the key is absent
RecordResult(index, fr, feedback) ==
    IF "percentage" \in DOMAIN fr
    THEN Appended([index |-> index, comment |-> feedback,
                   score |-> fr.overall_score, percentage |-> fr.percentage],
                  <<fr.percentage>>, fr)
    ELSE Raised("KeyError", fr)

AfterEvaluate(index, ev) ==
    IF ev.raised THEN Raised(ev.exc, Pending)
    ELSE RecordResult(index, ev.value, GetFluencyFeedback(ev.value))

\* the try block of one iteration
TryBody(submission, pos) ==
    IF ~submission.is_dict THEN Raised("AttributeError", Pending)
    ELSE IF ~submission.b64_ok
    THEN Returned(InvalidAudioResponse(IndexOf(submission, pos)))
    ELSE AfterEvaluate(IndexOf(submission, pos),
                       EvaluateFluency(submission.audio, submission.answer))

\* the handler also appending a percentage for the failed entry
ExceptHandlerCounted(submission, out) ==
    IF ~submission.is_dict THEN Escaped("AttributeError")
    ELSE Appended([index |-> IF submission.has_index THEN submission.index ELSE 0,
                   comment |-> <<"Error processing submission", out.exc>>,
                   score |-> "F"],
                  <<RZero>>, out.fluency)

\* except Exception as e: append the failure entry; submission.get raises
\* again, inside the handler, when the entry is not an object
ExceptHandler(submission, out) ==
    IF ~submission.is_dict THEN Escaped("AttributeError")
    ELSE Appended([index |-> IF submission.has_index THEN submission.index ELSE 0,
                   comment |-> <<"Error processing submission", out.exc>>,
                   score |-> "F"],
                  <<>>, out.fluency)

Caught(submission, out) ==
    IF out.kind = "raised" THEN ExceptHandler(submission, out) ELSE out

\* one iteration of for i, submission in enumerate(submissions)
Iteration(submission, pos) == Caught(submission, TryBody(submission, pos))

InitBatch ==
    /\ data \in Requests
    /\ pc = "start" /\ submissions = <<>> /\ i = 0 /\ results = <<>>
    /\ all_fluency_scores = <<>> /\ fluency_results = Pending /\ response = Pending

Init == InitBatch /\ IdleNorm /\ IdleGrade /\ IdleEval /\ IdlePure

\* the two validations, then results = [] and all_fluency_scores = []
Receive ==
    /\ pc = "start"
    /\ IF ~data.has_submissions
       THEN /\ response' = [status |-> 400,
                            error |-> <<"Missing submissions parameter">>]
            /\ pc' = "responded"
            /\ UNCHANGED submissions
       ELSE IF ~data.is_list \/ Len(data.items) = 0
       THEN /\ response' = [status |-> 400,
                            error |-> <<"Submissions must be a non-empty array">>]
            /\ pc' = "responded"
            /\ UNCHANGED submissions
       ELSE /\ submissions' = data.items
            /\ pc' = "loop"
            /\ UNCHANGED response
    /\ results' = <<>> /\ all_fluency_scores' = <<>>
    /\ UNCHANGED <<data, i, fluency_results>>

Step(out) ==
    /\ fluency_results' = IF out.fluency = Pending THEN fluency_results
                          ELSE out.fluency
    /\ IF out.kind = "appended"
       THEN /\ results' = Append(results, out.entry)
            /\ all_fluency_scores' = all_fluency_scores \o out.scores
            /\ i' = i + 1
            /\ UNCHANGED <<pc, response>>
       ELSE /\ response' = out.response
            /\ pc' = "responded"
            /\ UNCHANGED <<results, all_fluency_scores, i>>
    /\ UNCHANGED <<data, submissions>>

\* the body of the loop run on the next entry
ProcessSubmission ==
    /\ pc = "loop" /\ i < Len(submissions)
    /\ Step(Iteration(submissions[i + 1], i))

\* after the loop: the aggregate grade, the combined feedback, the 200
Respond ==
    /\ pc = "loop" /\ i = Len(submissions)
    /\ response' = [status |-> 200, result |-> results,
                    skills |-> [Fluency |-> CalculateOverallGrade(all_fluency_scores)],
                    actionableFeedback |-> GenerateCombinedFeedback(results)]
    /\ pc' = "responded"
    /\ UNCHANGED <<data, submissions, i, results, all_fluency_scores, fluency_results>>

Next ==
    \/ Receive /\ UNCHANGED <<normVars, gradeVars, evalVars, pureVars>>
    \/ ProcessSubmission /\ UNCHANGED <<normVars, gradeVars, evalVars, pureVars>>
    \/ Respond /\ UNCHANGED <<normVars, gradeVars, evalVars, pureVars>>

Spec == Init /\ [][Next]_vars

Responded == pc = "responded"
ValidRequest == data.has_submissions /\ data.is_list /\ Len(data.items) > 0
Positions == 1..Len(submissions)

\* C1, as claimed: when exactly one entry of several has a recordProof that is not
\* base64, the response still has one entry per submission, the bad one with
\* score "F", and the batch does not fail
C1_AsClaimed ==
    ( /\ Responded /\ ValidRequest /\ Len(submissions) > 1
      /\ \A k \in Positions : submissions[k].is_dict
      /\ Cardinality({k \in Positions : ~submissions[k].b64_ok}) = 1 )
    => /\ response.status = 200
       /\ Len(response.result) = Len(submissions)
       /\ \A k \in Positions :
             ~submissions[k].b64_ok => response.result[k].score = "F"

\* C3, as claimed: whatever the shape of an entry, an exception raised while
\* it is processed stays in its iteration: the batch ends with one entry per
\* submission, the entry of a value that is not an object carrying "F" and a
\* comment
C3_AsClaimed ==
    ( /\ Responded /\ ValidRequest
      /\ \A k \in Positions : submissions[k].b64_ok \/ ~submissions[k].is_dict )
    => /\ response.status = 200
       /\ Len(results) = Len(submissions)
       /\ \A k \in Positions :
             ~submissions[k].is_dict =>
                 results[k].score = "F" /\ results[k].comment # <<>>

\* the entry recorded for a submission whose evaluation gave no error result
RecordedAsScored(entry, ev) ==
    ("error" \notin DOMAIN ev.value) =>
        /\ "percentage" \in DOMAIN entry
        /\ entry.score = ev.value.overall_score
        /\ all_fluency_scores # <<>>

\* C4, as claimed: a submission whose evaluate_fluency result is not an error
\* result has its percentage appended and its entry carries the overall_score
\* and the percentage
C4_AsClaimed ==
    \A k \in 1..Len(results) :
        (submissions[k].is_dict /\ submissions[k].b64_ok) =>
            RecordedAsScored(results[k],
                             EvaluateFluency(submissions[k].audio,
                                             submissions[k].answer))

\* C5, as claimed: every entry carries the supplied index of its submission,
\* or its 1-based position when none is supplied
C5_AsClaimed ==
    \A k \in 1..Len(results) :
        results[k].index = IndexOf(submissions[k], k - 1)

RECURSIVE PercentagesOf(_)
PercentagesOf(rs) ==
    IF rs = <<>> THEN <<>>
    ELSE (IF "percentage" \in DOMAIN Head(rs) THEN <<Head(rs).percentage>> ELSE <<>>)
         \o PercentagesOf(Tail(rs))

====
